---- MODULE Spec2Model ----
(***************************************************************************)
(* A model of rs4, a Forth-like machine hosted in a 64 KiB arena.          *)
(*                                                                         *)
(* The arena (mem.rs) is a function from the addresses that hold a         *)
(* non-zero byte to that byte: Mem::default() is all zeroes, so the empty  *)
(* function is the fresh arena and every arena has one representation.     *)
(* Multi-byte accesses are little-endian and unaligned, as the tests of    *)
(* mem.rs (odd addresses 54345, 12345) establish for the supported build.  *)
(*                                                                         *)
(* A Rust Result<T, E> returned by a method taking &mut self is a record   *)
(* [err, val, s]: the error kind ("Ok" on success), the value, and the     *)
(* receiver (a MachineMemory or a Machine) as the call left it, also on    *)
(* failure: that is what the caller of a failed &mut method observes.      *)
(***************************************************************************)
EXTENDS Integers, Sequences, FiniteSets, TLC

VARIABLES machine, result, words, run, nops, articles

vars == <<machine, result, words, run, nops, articles>>

\* ------------------------------------------------------------------ bounds

\* The data space (dictionary + data stack) of the small layout, in 16-bit words.
DataSpaceWords == 3
\* The call stack depth of the layout with the small call stack.
SmallCallDepth == 2
\* The number of primitive calls in a behaviour of SpecMem and SpecData.
MaxOps == 4
\* the number of texts a behaviour of the interpreter is given
MaxInputs == 3
\* the bytes of the arena, from address 0, that a walk of the chain starts with
\* arbitrary values in
WalkBytes == 6
\* the number of lines a behaviour of SpecFlow interprets
MaxFlowWords == 8
\* the number of pushes and of loads and stores in a behaviour of SpecAccess
MaxAccessOps == 5
\* the number of puts into the pictured numeric output buffer whose byte is
\* chosen freely
MaxChosenPuts == 3
\* the number of words of a sequence that is executed directly and compiled
MaxWords == 3
\* The data space, in 16-bit words, of a layout that has room for a definition
\* of MaxWords words but not for the data stack of its run as well.
MidDataSpaceWords == 7
\* the number of digits of the enumerated sources of parse_literal
MaxDigits == 3

\* --------------------------------------------------------------- constants

MEM_SIZE == 65536
\* the value create_forward_reference writes in the slot (0xDEAD)
UnresolvedReference == 57005
AddressMax == MEM_SIZE - 1
DefaultMaxCallStackDepth == 128

ReservedAddresses ==
    [HereVar |-> 0, CurrentDefVar |-> 2, StateVar |-> 4, BaseVar |-> 10,
     WordBuffer |-> 256, PadBuffer |-> 512, PnoBuffer |-> 640, Max |-> 767]

None == <<>>
Some(x) == <<x>>

W16(x) == x % MEM_SIZE
W8(x) == x % 256

\* ------------------------------------------------------------------ mem.rs

address_range == <<0, AddressMax>>

\* Err(MemoryAccessError) iff the access is inverted or leaves the segment.
validate_access(access, segment) ==
    ~(access[1] > access[2] \/ access[1] < segment[1] \/ access[2] > segment[2])

read_u8(m, offset) == IF offset \in DOMAIN m THEN m[offset] ELSE 0

write_u8(m, offset, value) ==
    IF value = 0
    THEN [a \in (DOMAIN m) \ {offset} |-> m[a]]
    ELSE [a \in (DOMAIN m) \cup {offset} |-> IF a = offset THEN value ELSE m[a]]

read_u16(m, offset) == read_u8(m, offset) + 256 * read_u8(m, offset + 1)

write_u16(m, offset, value) ==
    write_u8(write_u8(m, offset, value % 256), offset + 1, (value \div 256) % 256)

\* A u32 is held as <<low half, high half>>, two u16; the low half is at the
\* lower address.
read_u32(m, offset) == <<read_u16(m, offset), read_u16(m, offset + 2)>>

write_u32(m, offset, value) ==
    write_u16(write_u16(m, offset, value[1]), offset + 2, value[2])

\* ------------------------------------------------------- Result<T, E> values

Ok(s, val) == [err |-> "Ok", val |-> val, s |-> s]
Err(s, kind) == [err |-> kind, val |-> 0, s |-> s]
IsOk(r) == r.err = "Ok"
\* The ? operator: continue with F on Ok, return the error otherwise.
Try(r, F(_)) == IF IsOk(r) THEN F(r) ELSE r

\* --------------------------------------------------------- sized_string.rs

sized_string_read_length(m, address) == read_u8(m, address)

sized_string_content_address(address) == W16(address + 1)

sized_string_validate_content(m, address, safe_address_range) ==
    LET length == sized_string_read_length(m, address)
        content_address == sized_string_content_address(address)
    IN  length > 0 =>
            validate_access(<<content_address, W16(content_address + length - 1)>>,
                            safe_address_range)

\* ReadableSizedString::new succeeds
ReadableSizedString_new(m, address, safe_address_range) ==
    /\ validate_access(<<address, address>>, safe_address_range)
    /\ sized_string_validate_content(m, address, safe_address_range)

sized_string_full_range(m, address) ==
    <<address, W16(W16(address + 1) + sized_string_read_length(m, address))>>

sized_string_as_bytes(m, address) ==
    [i \in 1..sized_string_read_length(m, address) |-> read_u8(m, address + i)]

\* ------------------------------------------------------- machine_memory.rs

get_reserved_address(mm, offset) == mm.reserved_space_start + offset

get_dict_ptr(mm) ==
    read_u16(mm.raw_memory, get_reserved_address(mm, ReservedAddresses.HereVar))

set_dict_ptr(mm, address) ==
    [mm EXCEPT !.raw_memory =
        write_u16(@, get_reserved_address(mm, ReservedAddresses.HereVar), address)]

reset_builtin_vars(mm) ==
    LET m1 == write_u16(mm.raw_memory, get_reserved_address(mm, ReservedAddresses.BaseVar), 10)
        m2 == write_u16(m1, get_reserved_address(mm, ReservedAddresses.HereVar), address_range[1])
        m3 == write_u16(m2, get_reserved_address(mm, ReservedAddresses.StateVar), 0)
        m4 == write_u16(m3, get_reserved_address(mm, ReservedAddresses.CurrentDefVar), AddressMax)
    IN  [mm EXCEPT !.raw_memory = m4]

\* overflow_checks is the build's setting (checked or wrapping u16 arithmetic),
\* carried with the value so that every method sees it; it is not a field.
MachineMemory_new(raw, max_call_stack_depth, checks) ==
    LET reserved_space_start == address_range[2] - ReservedAddresses.Max
        stacks_border == reserved_space_start - 2 * max_call_stack_depth
    IN  reset_builtin_vars(
            [last_article_ptr |-> None,
             reserved_space_start |-> reserved_space_start,
             call_stack_ptr |-> reserved_space_start,
             stacks_border |-> stacks_border,
             data_stack_ptr |-> stacks_border,
             raw_memory |-> raw,
             overflow_checks |-> checks])

\* a reset that keeps the pointer to the last article
reset_keeping_last_article(mm) ==
    reset_builtin_vars([mm EXCEPT !.call_stack_ptr = mm.reserved_space_start,
                                  !.data_stack_ptr = mm.stacks_border])

reset(mm) ==
    reset_builtin_vars([mm EXCEPT !.last_article_ptr = None,
                                  !.call_stack_ptr = mm.reserved_space_start,
                                  !.data_stack_ptr = mm.stacks_border])

call_stack_depth(mm) == W16(mm.reserved_space_start - mm.call_stack_ptr) \div 2

data_stack_depth(mm) == W16(mm.stacks_border - mm.data_stack_ptr) \div 2

\* the lowest call-stack address taken as exclusive
get_call_stack_segment_exclusive(mm) == <<mm.stacks_border + 1, mm.reserved_space_start - 1>>

get_call_stack_segment(mm) == <<mm.stacks_border, mm.reserved_space_start - 1>>

\* the data stack bounded below by the start of the arena, not by HERE
get_data_stack_segment_static(mm) == <<address_range[1], mm.stacks_border - 1>>

get_data_stack_segment(mm) == <<get_dict_ptr(mm), mm.stacks_border - 1>>

\* data_stack_ptr - 1 is a plain u16 subtraction: with data_stack_ptr = 0 it
\* panics where overflow checks are compiled in and wraps to 0xFFFF otherwise.
free_data_segment_overflows(mm) == mm.data_stack_ptr = 0

\* the free data segment ending at the stacks border, not below the data stack
get_free_data_segment_to_border(mm) == <<get_dict_ptr(mm), mm.stacks_border - 1>>

get_free_data_segment(mm) == <<get_dict_ptr(mm), W16(mm.data_stack_ptr - 1)>>

get_used_dict_segment(mm) ==
    <<address_range[1], IF get_dict_ptr(mm) = 0 THEN 0 ELSE get_dict_ptr(mm) - 1>>

\* push_u16 writing the value before the pointer moves
push_u16_at_old_sp(mm, sp, safe_range, value) ==
    LET next_sp == W16(mm[sp] - 2)
    IN  IF validate_access(<<next_sp, W16(next_sp + 1)>>, safe_range)
        THEN Ok([mm EXCEPT !.raw_memory = write_u16(@, mm[sp], value), ![sp] = next_sp], 0)
        ELSE Err(mm, "MemoryAccessError")

\* push_u16 / push_u32 on the stack whose pointer is field sp
push_u16(mm, sp, safe_range, value) ==
    LET next_sp == W16(mm[sp] - 2)
    IN  IF validate_access(<<next_sp, W16(next_sp + 1)>>, safe_range)
        THEN Ok([mm EXCEPT !.raw_memory = write_u16(@, next_sp, value), ![sp] = next_sp], 0)
        ELSE Err(mm, "MemoryAccessError")

get_u16(mm, sp, safe_range) ==
    IF validate_access(<<mm[sp], W16(mm[sp] + 1)>>, safe_range)
    THEN Ok(mm, read_u16(mm.raw_memory, mm[sp]))
    ELSE Err(mm, "MemoryAccessError")

\* pop_u16 moving the pointer before the read is validated
pop_u16_moving_first(mm, sp, safe_range) ==
    LET got == get_u16(mm, sp, safe_range)
        moved == [mm EXCEPT ![sp] = W16(@ + 2)]
    IN  IF IsOk(got) THEN Ok(moved, got.val) ELSE Err(moved, got.err)

pop_u16(mm, sp, safe_range) ==
    LET got == get_u16(mm, sp, safe_range)
    IN  IF IsOk(got) THEN Ok([mm EXCEPT ![sp] = W16(@ + 2)], got.val) ELSE got

push_u32(mm, sp, safe_range, value) ==
    LET next_sp == W16(mm[sp] - 4)
    IN  IF validate_access(<<next_sp, W16(next_sp + 3)>>, safe_range)
        THEN Ok([mm EXCEPT !.raw_memory = write_u32(@, next_sp, value), ![sp] = next_sp], 0)
        ELSE Err(mm, "MemoryAccessError")

get_u32(mm, sp, safe_range) ==
    IF validate_access(<<mm[sp], W16(mm[sp] + 3)>>, safe_range)
    THEN Ok(mm, read_u32(mm.raw_memory, mm[sp]))
    ELSE Err(mm, "MemoryAccessError")

pop_u32(mm, sp, safe_range) ==
    LET got == get_u32(mm, sp, safe_range)
    IN  IF IsOk(got) THEN Ok([mm EXCEPT ![sp] = W16(@ + 4)], got.val) ELSE got

data_push_u16(mm, value) == push_u16(mm, "data_stack_ptr", get_data_stack_segment(mm), value)
data_pop_u16(mm) == pop_u16(mm, "data_stack_ptr", get_data_stack_segment(mm))
data_push_u32(mm, value) == push_u32(mm, "data_stack_ptr", get_data_stack_segment(mm), value)
data_pop_u32(mm) == pop_u32(mm, "data_stack_ptr", get_data_stack_segment(mm))

call_push_u16(mm, value) == push_u16(mm, "call_stack_ptr", get_call_stack_segment(mm), value)
call_push_u32(mm, value) == push_u32(mm, "call_stack_ptr", get_call_stack_segment(mm), value)
call_pop_u16(mm) == pop_u16(mm, "call_stack_ptr", get_call_stack_segment(mm))
call_get_u16(mm) == get_u16(mm, "call_stack_ptr", get_call_stack_segment(mm))
call_pop_u32(mm) == pop_u32(mm, "call_stack_ptr", get_call_stack_segment(mm))
call_get_u32(mm) == get_u32(mm, "call_stack_ptr", get_call_stack_segment(mm))

\* The dictionary writes compute get_free_data_segment first: "Panic" is the
\* overflow-checked build's outcome when that subtraction overflows.
dict_write_u8(mm, value) ==
    LET dict_ptr == get_dict_ptr(mm)
    IN  IF mm.overflow_checks /\ free_data_segment_overflows(mm) THEN Err(mm, "Panic")
        ELSE IF validate_access(<<dict_ptr, dict_ptr>>, get_free_data_segment(mm))
        THEN Ok(set_dict_ptr([mm EXCEPT !.raw_memory = write_u8(@, dict_ptr, value)],
                             W16(dict_ptr + 1)), 0)
        ELSE Err(mm, "MemoryAccessError")

dict_write_opcode(mm, value) == dict_write_u8(mm, value)

dict_write_u16(mm, value) ==
    LET dict_ptr == get_dict_ptr(mm)
    IN  IF mm.overflow_checks /\ free_data_segment_overflows(mm) THEN Err(mm, "Panic")
        ELSE IF validate_access(<<dict_ptr, W16(dict_ptr + 1)>>, get_free_data_segment(mm))
        THEN Ok(set_dict_ptr([mm EXCEPT !.raw_memory = write_u16(@, dict_ptr, value)],
                             W16(dict_ptr + 2)), 0)
        ELSE Err(mm, "MemoryAccessError")

dict_write_u32(mm, value) ==
    LET dict_ptr == get_dict_ptr(mm)
    IN  IF mm.overflow_checks /\ free_data_segment_overflows(mm) THEN Err(mm, "Panic")
        ELSE IF validate_access(<<dict_ptr, W16(dict_ptr + 3)>>, get_free_data_segment(mm))
        THEN Ok(set_dict_ptr([mm EXCEPT !.raw_memory = write_u32(@, dict_ptr, value)],
                             W16(dict_ptr + 4)), 0)
        ELSE Err(mm, "MemoryAccessError")

RECURSIVE copy_bytes(_, _, _, _, _)
\* the loop of dict_write_sized_string: for i in i..length, dst[i] = src[i]
copy_bytes(m, src, dst, i, length) ==
    IF i >= length THEN m
    ELSE copy_bytes(write_u8(m, W16(dst + i), read_u8(m, W16(src + i))), src, dst, i + 1, length)

dict_write_sized_string(mm, address) ==
    LET dict_ptr == get_dict_ptr(mm)
        length == sized_string_read_length(mm.raw_memory, address)
        content_address == sized_string_content_address(address)
    IN  IF ~ReadableSizedString_new(mm.raw_memory, address, address_range)
        THEN Err(mm, "MemoryAccessError")
        ELSE IF mm.overflow_checks /\ free_data_segment_overflows(mm) THEN Err(mm, "Panic")
        ELSE IF validate_access(<<dict_ptr, W16(W16(dict_ptr + 1) + length)>>,
                                get_free_data_segment(mm))
        THEN Ok(set_dict_ptr(
                    [mm EXCEPT !.raw_memory =
                        copy_bytes(write_u8(@, dict_ptr, length), content_address,
                                   W16(dict_ptr + 1), 0, length)],
                    W16(W16(dict_ptr + 1) + length)), 0)
        ELSE Err(mm, "MemoryAccessError")

\* a create_forward_reference that returns the address after the placeholder
create_forward_reference_after(mm) ==
    LET w == dict_write_u16(mm, UnresolvedReference)
    IN  IF IsOk(w) THEN Ok(w.s, get_dict_ptr(w.s)) ELSE w

create_forward_reference(mm) ==
    LET addr == get_dict_ptr(mm)
        w == dict_write_u16(mm, UnresolvedReference)
    IN  IF IsOk(w) THEN Ok(w.s, addr) ELSE w

\* ---------------------------------------------------------------- input.rs

\* StaticStringInput: the text and the offset of the next byte.
StaticStringInput_new(text) == [text |-> text, offset |-> 0]

\* Input::read: [val |-> Some(byte) or None at EOF, inp |-> the input afterwards]
input_read(inp) ==
    IF inp.offset < Len(inp.text)
    THEN [val |-> Some(inp.text[inp.offset + 1]), inp |-> [inp EXCEPT !.offset = @ + 1]]
    ELSE [val |-> None, inp |-> inp]

\* u8::is_ascii_whitespace: space, tab, line feed, form feed, carriage return
is_whitespace(chr) == chr \in {32, 9, 10, 12, 13}

\* ---------------------------------------------------------------- opcodes.rs

OpCode ==
    [Noop |-> 0, DefaultArticleStart |-> 1, Return |-> 2, Call |-> 3, Literal16 |-> 4,
     LiteralString |-> 5, GoTo |-> 6, GoToIfZ |-> 7, ExecBuiltin |-> 8,
     CallPop16 |-> 9, CallPush16 |-> 10, CallPop32 |-> 11, CallPush32 |-> 12,
     CallRead16 |-> 13, CallRead32 |-> 14,
     Dup32 |-> 123, Over16 |-> 124, Over32 |-> 125, Swap16 |-> 126, Swap32 |-> 127,
     Dup16 |-> 128, Add16 |-> 129, Sub16 |-> 130, Mul16 |-> 131, Div16 |-> 132,
     Load16 |-> 133, Store16 |-> 134, Load8 |-> 135, Store8 |-> 136, Load32 |-> 137,
     Store32 |-> 138, Drop16 |-> 139, Invert16 |-> 140, And16 |-> 141, Or16 |-> 142,
     Xor16 |-> 143, Eq16 |-> 144, Lt16 |-> 145, Gt16 |-> 146, Rot16 |-> 147,
     I16ToI32 |-> 148, Abs16 |-> 149,
     Emit |-> 200, PnoInit |-> 201, PnoPut |-> 202, PnoFinish |-> 203,
     PnoPutDigit |-> 204, EmitString |-> 205]

\* ------------------------------------------------------------ the Machine

\* Machine (machine.rs): the input and output collaborators and the memory.
Machine_new(text, max_call_stack_depth, checks) ==
    [input |-> StaticStringInput_new(text),
     output |-> <<>>,
     memory |-> MachineMemory_new(<<>>, max_call_stack_depth, checks)]

\* a MachineMemory result as the result of the Machine method that made the call
Lift(mc, r) == [err |-> r.err, val |-> r.val, s |-> [mc EXCEPT !.memory = r.s]]

\* ------------------------------------------------------- builtin_words.rs

StringLenMax == 255

RECURSIVE string_literal_loop(_, _, _)
\* The read loop of compile_string_literal with SizedStringWriter::append_u8:
\* len is the writer's counter, address its start.
string_literal_loop(mc, address, len) ==
    LET rd == input_read(mc.input)
        mc1 == [mc EXCEPT !.input = rd.inp]
    IN  IF rd.val = None THEN Err(mc1, "UnexpectedInputEOF")
        ELSE IF rd.val[1] = 34 THEN Ok(mc1, len)
        ELSE IF len >= StringLenMax THEN Err(mc1, "MemoryAccessError")
        ELSE string_literal_loop(
                [mc1 EXCEPT !.memory.raw_memory = write_u8(@, W16(address + len + 1), rd.val[1])],
                address, len + 1)

compile_string_literal(mc) ==
    LET w == Lift(mc, dict_write_opcode(mc.memory, OpCode.LiteralString))
    IN  IF ~IsOk(w) THEN w
        ELSE
        LET start_address == get_dict_ptr(w.s.memory)
            safe_range == get_free_data_segment(w.s.memory)
        IN  IF ~validate_access(<<start_address, W16(start_address + StringLenMax)>>, safe_range)
            THEN Err(w.s, "MemoryAccessError")
            ELSE
            LET lp == string_literal_loop(w.s, start_address, 0)
            IN  IF ~IsOk(lp) THEN lp
                ELSE
                LET finished == write_u8(lp.s.memory.raw_memory, start_address, lp.val)
                    end_address == W16(sized_string_full_range(finished, start_address)[2] + 1)
                IN  Ok([lp.s EXCEPT !.memory =
                            set_dict_ptr([@ EXCEPT !.raw_memory = finished], end_address)], 0)

WordBufferLen == 255

RECURSIVE read_word_rest(_, _, _, _)
\* the second loop of Input::read_word: read_len bytes are in the buffer
read_word_rest(inp, m, buffer, read_len) ==
    LET rd == input_read(inp)
    IN  IF rd.val = None \/ is_whitespace(rd.val[1])
        THEN [err |-> "Ok", len |-> read_len, inp |-> rd.inp, m |-> m]
        ELSE IF read_len >= WordBufferLen
        THEN [err |-> "InputError", len |-> read_len, inp |-> rd.inp, m |-> m]
        ELSE read_word_rest(rd.inp, write_u8(m, buffer + read_len, rd.val[1]),
                            buffer, read_len + 1)

RECURSIVE read_word(_, _, _)
\* Input::read_word into the arena at buffer: skip whitespace, then read the word
read_word(inp, m, buffer) ==
    LET rd == input_read(inp)
    IN  IF rd.val = None THEN [err |-> "Ok", len |-> 0, inp |-> rd.inp, m |-> m]
        ELSE IF ~is_whitespace(rd.val[1])
        THEN read_word_rest(rd.inp, write_u8(m, buffer, rd.val[1]), buffer, 1)
        ELSE read_word(rd.inp, m, buffer)

\* MachineMemory::read_input_word, as Machine::read_input_word calls it:
\* val is Some(buffer_address), or None at EOF
read_input_word(mc) ==
    LET buffer_address == get_reserved_address(mc.memory, ReservedAddresses.WordBuffer)
        content_address == buffer_address + 1
        rw == read_word(mc.input, mc.memory.raw_memory, content_address)
        mc1 == [mc EXCEPT !.input = rw.inp, !.memory.raw_memory = rw.m]
    IN  IF rw.err # "Ok" THEN Err(mc1, rw.err)
        ELSE Ok([mc1 EXCEPT !.memory.raw_memory = write_u8(@, buffer_address, W8(rw.len))],
                IF rw.len > 0 THEN Some(buffer_address) ELSE None)

\* ------------------------------- machine_memory.rs: the builtin variables

\* MachineState (machine_state.rs)
Interpreter == "Interpreter"
Compiler == "Compiler"

get_state(mm) ==
    IF read_u16(mm.raw_memory, get_reserved_address(mm, ReservedAddresses.StateVar)) = 0
    THEN Interpreter ELSE Compiler

\* set_state that writes the interpreter state whatever it is given
set_state_interpreter(mm, state) ==
    [mm EXCEPT !.raw_memory =
        write_u16(@, get_reserved_address(mm, ReservedAddresses.StateVar), 0)]

set_state(mm, state) ==
    [mm EXCEPT !.raw_memory =
        write_u16(@, get_reserved_address(mm, ReservedAddresses.StateVar),
                  IF state = Interpreter THEN 0 ELSE 65535)]

get_current_word(mm) ==
    LET addr == read_u16(mm.raw_memory, get_reserved_address(mm, ReservedAddresses.CurrentDefVar))
    IN  IF addr >= get_dict_ptr(mm) THEN None ELSE Some(addr)

set_current_word(mm, header_address) ==
    [mm EXCEPT !.raw_memory =
        write_u16(@, get_reserved_address(mm, ReservedAddresses.CurrentDefVar),
                  IF header_address = None THEN 65535 ELSE header_address[1])]

get_base(mm) == read_u16(mm.raw_memory, get_reserved_address(mm, ReservedAddresses.BaseVar))

\* a + b on u16 with the plain operator: a panic where overflow checks are
\* compiled in, a wrapped value otherwise
AddOverflows(mm, a, b) == mm.overflow_checks /\ a + b > AddressMax

\* a resolve_forward_reference that writes the address of the slot, not HERE
resolve_forward_reference_to_slot(mm, reference_address) ==
    IF AddOverflows(mm, reference_address, 1) THEN Err(mm, "Panic")
    ELSE IF validate_access(<<reference_address, W16(reference_address + 1)>>,
                            get_used_dict_segment(mm))
    THEN Ok([mm EXCEPT !.raw_memory = write_u16(@, reference_address, reference_address)], 0)
    ELSE Err(mm, "MemoryAccessError")

resolve_forward_reference(mm, reference_address) ==
    IF AddOverflows(mm, reference_address, 1) THEN Err(mm, "Panic")
    ELSE IF validate_access(<<reference_address, W16(reference_address + 1)>>,
                            get_used_dict_segment(mm))
    THEN Ok([mm EXCEPT !.raw_memory = write_u16(@, reference_address, get_dict_ptr(mm))], 0)
    ELSE Err(mm, "MemoryAccessError")

\* the pictured numeric output buffer
get_pno_content_range(mm) ==
    LET start_address == get_reserved_address(mm, ReservedAddresses.PnoBuffer)
    IN  <<W16(start_address + 1), W16(start_address + 127)>>

clear_pno_buffer(mm) ==
    [mm EXCEPT !.raw_memory =
        write_u8(@, get_reserved_address(mm, ReservedAddresses.PnoBuffer), 0)]

\* a pno_put that takes the whole buffer, with its length byte, for the content
pno_put_into_buffer(mm, ch) ==
    LET buffer == get_reserved_address(mm, ReservedAddresses.PnoBuffer)
        current_size == read_u8(mm.raw_memory, buffer)
        content_range == <<buffer, W16(buffer + 127)>>
        write_address == W16(content_range[2] - current_size)
    IN  IF validate_access(<<write_address, write_address>>, content_range)
        THEN Ok([mm EXCEPT !.raw_memory =
                    write_u8(write_u8(@, write_address, ch), buffer, W8(current_size + 1))], 0)
        ELSE Err(mm, "MemoryAccessError")

pno_put(mm, ch) ==
    LET buffer == get_reserved_address(mm, ReservedAddresses.PnoBuffer)
        current_size == read_u8(mm.raw_memory, buffer)
        content_range == get_pno_content_range(mm)
        write_address == W16(content_range[2] - current_size)
    IN  IF validate_access(<<write_address, write_address>>, content_range)
        THEN Ok([mm EXCEPT !.raw_memory =
                    write_u8(write_u8(@, write_address, ch), buffer, W8(current_size + 1))], 0)
        ELSE Err(mm, "MemoryAccessError")

\* pno_finish: <<address, size>>
pno_finish(mm) ==
    LET size == read_u8(mm.raw_memory, get_reserved_address(mm, ReservedAddresses.PnoBuffer))
    IN  <<W16(W16(get_pno_content_range(mm)[2] - size) + 1), size>>

\* ------------------------------------------------------ readable_article.rs

MIN_HEADER_SIZE == 3

article_name_address(header_address) == W16(header_address + 2)

\* ReadableArticle::new: "Ok", or the way it fails
ReadableArticle_new(mm, header_address, safe_memory_range) ==
    IF AddOverflows(mm, header_address, MIN_HEADER_SIZE) THEN "Panic"
    ELSE IF /\ validate_access(<<header_address, W16(header_address + MIN_HEADER_SIZE)>>,
                               safe_memory_range)
            /\ sized_string_validate_content(mm.raw_memory,
                    article_name_address(header_address), safe_memory_range)
    THEN "Ok" ELSE "MemoryAccessError"

article_name(mm, header_address) ==
    sized_string_as_bytes(mm.raw_memory, article_name_address(header_address))

body_address(mm, header_address) ==
    W16(W16(article_name_address(header_address)
            + sized_string_read_length(mm.raw_memory, article_name_address(header_address))) + 1)

previous_address(mm, header_address) == read_u16(mm.raw_memory, header_address)

\* previous_article following the link wherever it leads
previous_article_unchecked(mm, header_address, safe_memory_range) ==
    LET made == ReadableArticle_new(mm, read_u16(mm.raw_memory, header_address),
                                    safe_memory_range)
    IN  IF made = "Ok" THEN Ok(mm, Some(read_u16(mm.raw_memory, header_address)))
        ELSE Err(mm, made)

\* previous_article: val is Some(header) or None
previous_article(mm, header_address, safe_memory_range) ==
    LET prev_address == previous_address(mm, header_address)
    IN  IF prev_address >= header_address THEN Ok(mm, None)
        ELSE LET made == ReadableArticle_new(mm, prev_address, safe_memory_range)
             IN  IF made = "Ok" THEN Ok(mm, Some(prev_address)) ELSE Err(mm, made)

\* ReadableArticlesIterator: the first item of articles()
first_article(mm) ==
    IF mm.last_article_ptr = None THEN None
    ELSE IF ReadableArticle_new(mm, mm.last_article_ptr[1], get_used_dict_segment(mm)) = "Ok"
    THEN mm.last_article_ptr ELSE None

\* ------------------------------------------ machine_memory.rs: the lookup

\* a turn that gives up at the first article of another name
lookup_turn_once(mm, current_article, name) ==
    [done |-> TRUE,
     r |-> Ok(mm, IF article_name(mm, current_article) = name
                  THEN Some(current_article) ELSE None)]

\* One turn of the loop of lookup_article at current_article:
\* [done, r]: r is what lookup_article returns when done, and otherwise
\* carries the next article in r.val
lookup_turn(mm, current_article, name) ==
    IF article_name(mm, current_article) = name
    THEN [done |-> TRUE, r |-> Ok(mm, Some(current_article))]
    ELSE LET prev == previous_article(mm, current_article, get_used_dict_segment(mm))
         IN  [done |-> ~IsOk(prev) \/ prev.val = None, r |-> prev]

RECURSIVE lookup_loop(_, _, _)
lookup_loop(mm, current_article, name) ==
    LET turn == lookup_turn(mm, current_article, name)
    IN  IF turn.done THEN turn.r ELSE lookup_loop(mm, turn.r.val[1], name)

\* the match on last_article_ptr that starts lookup_article
lookup_start(mm) ==
    IF mm.last_article_ptr = None THEN Ok(mm, None)
    ELSE LET made == ReadableArticle_new(mm, mm.last_article_ptr[1], get_used_dict_segment(mm))
         IN  IF made = "Ok" THEN Ok(mm, mm.last_article_ptr) ELSE Err(mm, made)

lookup_article(mm, name) ==
    LET start == lookup_start(mm)
    IN  IF ~IsOk(start) \/ start.val = None THEN start
        ELSE lookup_loop(mm, start.val[1], name)

lookup_article_name_buf(mm, name_address) ==
    IF ~ReadableSizedString_new(mm.raw_memory, name_address, address_range)
    THEN Err(mm, "MemoryAccessError")
    ELSE lookup_article(mm, sized_string_as_bytes(mm.raw_memory, name_address))

\* --------------------------------------------------------------- literal.rs

\* a to_digit that knows the lower-case letters only
digit_value_lower_case(c) ==
    IF c >= 48 /\ c <= 57 THEN c - 48
    ELSE IF c >= 97 /\ c <= 122 THEN c - 97 + 10
    ELSE -1

\* char::to_digit for radix up to 36: -1 where the byte is no digit
digit_value(c) ==
    IF c >= 48 /\ c <= 57 THEN c - 48
    ELSE IF c >= 97 /\ c <= 122 THEN c - 97 + 10
    ELSE IF c >= 65 /\ c <= 90 THEN c - 65 + 10
    ELSE -1

RECURSIVE accumulate_digits(_, _, _, _)
\* the digits of source from index i on, onto acc: -1 on a bad digit or overflow
accumulate_digits(source, radix, i, acc) ==
    IF i > Len(source) THEN acc
    ELSE LET d == digit_value(source[i])
         IN  IF d < 0 \/ d >= radix \/ acc * radix + d > 65535 THEN -1
             ELSE accumulate_digits(source, radix, i + 1, acc * radix + d)

\* u16::from_str_radix(str::from_utf8(source).ok()?, radix).ok(): -1 is None
from_str_radix(source, radix) ==
    IF Len(source) = 0 THEN -1
    ELSE IF source[1] \in {43, 45} /\ Len(source) = 1 THEN -1
    ELSE IF source[1] = 43 THEN accumulate_digits(source, radix, 2, 0)
    ELSE accumulate_digits(source, radix, 1, 0)

\* a try_parse that takes every magnitude an i16 can hold the negative of
try_parse_to_i16_min(source, radix) ==
    IF Len(source) = 0 \/ radix < 2 \/ radix > 36 THEN [err |-> "Panic", val |-> None]
    ELSE IF source[1] = 45
    THEN LET absolute == from_str_radix(Tail(source), radix)
         IN  [err |-> "Ok",
              val |-> IF absolute < 0 \/ absolute > 32768 THEN None ELSE Some(W16(0 - absolute))]
    ELSE LET value == from_str_radix(source, radix)
         IN  [err |-> "Ok", val |-> IF value < 0 THEN None ELSE Some(value)]

\* try_parse: err is "Panic" where source[0] is out of bounds or the radix is
\* not one from_str_radix accepts; val is Some(value) or None
try_parse(source, radix) ==
    IF Len(source) = 0 \/ radix < 2 \/ radix > 36 THEN [err |-> "Panic", val |-> None]
    ELSE IF source[1] = 45
    THEN LET absolute == from_str_radix(Tail(source), radix)
         IN  [err |-> "Ok",
              val |-> IF absolute < 0 \/ absolute > 32767 THEN None ELSE Some(W16(0 - absolute))]
    ELSE LET value == from_str_radix(source, radix)
         IN  [err |-> "Ok", val |-> IF value < 0 THEN None ELSE Some(value)]

parse_literal(source, default_radix) ==
    IF Len(source) = 0 THEN [err |-> "Ok", val |-> None]
    ELSE IF source[1] = 35 THEN try_parse(Tail(source), 10)
    ELSE IF source[1] = 36 THEN try_parse(Tail(source), 16)
    ELSE IF source[1] = 37 THEN try_parse(Tail(source), 2)
    ELSE try_parse(source, default_radix)

\* ----------------------------------------------------------- stack_effect.rs

RECURSIVE count_size(_)
\* the number of 16-bit words of a list of cell sizes
count_size(sizes) == IF sizes = <<>> THEN 0 ELSE Head(sizes) + count_size(Tail(sizes))

\* A stack effect is [ins, outs]: the sizes in words of the cells popped and
\* pushed, deepest first.
max_ptr(fx, base) == W16(base + W16(W16(count_size(fx.ins) * 2) - 1))

resulting_ptr(fx, base) == W16(W16(max_ptr(fx, base) - W16(count_size(fx.outs) * 2)) + 1)

min_ptr(fx, base) ==
    IF count_size(fx.ins) > count_size(fx.outs) THEN base ELSE resulting_ptr(fx, base)

\* stack_effect!(..).validate() succeeds
stack_effect(mm, fx) ==
    validate_access(<<min_ptr(fx, mm.data_stack_ptr), max_ptr(fx, mm.data_stack_ptr)>>,
                    get_data_stack_segment(mm))

\* the getter of the i-th popped cell
fx_get(mm, fx, i) ==
    LET address == mm.data_stack_ptr + count_size(SubSeq(fx.ins, i + 1, Len(fx.ins))) * 2
    IN  IF fx.ins[i] = 1 THEN read_u16(mm.raw_memory, address)
        ELSE read_u32(mm.raw_memory, address)

\* the setter of the j-th pushed cell
fx_set(mm, fx, j, value) ==
    LET address == resulting_ptr(fx, mm.data_stack_ptr)
                    + count_size(SubSeq(fx.outs, j + 1, Len(fx.outs))) * 2
    IN  [mm EXCEPT !.raw_memory =
            IF fx.outs[j] = 1 THEN write_u16(@, address, value) ELSE write_u32(@, address, value)]

\* commit that leaves the data stack pointer where it was
fx_commit_keeps_ptr(mm, fx) == mm

fx_commit(mm, fx) == [mm EXCEPT !.data_stack_ptr = resulting_ptr(fx, @)]

\* --------------------------------------------------- opcodes.rs: execution

RECURSIVE bitwise(_, _, _, _)
\* a op b bit by bit over the n low bits, op given by its truth table
bitwise(a, b, table, n) ==
    IF n = 0 THEN 0
    ELSE table[a % 2][b % 2] + 2 * bitwise(a \div 2, b \div 2, table, n - 1)

AndTable == <<<<0, 0>>, <<0, 1>>>>
OrTable == <<<<0, 1>>, <<1, 1>>>>
XorTable == <<<<0, 1>>, <<1, 0>>>>
Bit(table, a, b) == bitwise(a, b, [x \in 0..1 |-> [y \in 0..1 |-> table[x + 1][y + 1]]], 16)

\* u16 as i16
I16(x) == IF x >= 32768 THEN x - 65536 ELSE x
\* the cell a bool is stored as
Flag(b) == IF b THEN 65535 ELSE 0

\* the opcodes of the form (a b -- c): the value of c
binary_value(op, a, b) ==
    CASE op = OpCode.Add16 -> W16(a + b)
      [] op = OpCode.Sub16 -> W16(a - b)
      [] op = OpCode.Mul16 -> W16(a * b)
      [] op = OpCode.Div16 -> a \div b
      [] op = OpCode.And16 -> Bit(AndTable, a, b)
      [] op = OpCode.Or16 -> Bit(OrTable, a, b)
      [] op = OpCode.Xor16 -> Bit(XorTable, a, b)
      [] op = OpCode.Eq16 -> Flag(a = b)
      [] op = OpCode.Lt16 -> Flag(I16(a) < I16(b))
      [] op = OpCode.Gt16 -> Flag(I16(a) > I16(b))

BinaryOpCodes ==
    {OpCode.Add16, OpCode.Sub16, OpCode.Mul16, OpCode.Div16, OpCode.And16, OpCode.Or16,
     OpCode.Xor16, OpCode.Eq16, OpCode.Lt16, OpCode.Gt16}

\* a load or store that does not validate the range of its access
load_store_unvalidated(mm, op) ==
    LET size == CASE op \in {OpCode.Load8, OpCode.Store8} -> 1
                  [] op \in {OpCode.Load16, OpCode.Store16} -> 2
                  [] OTHER -> 4
        cells == IF size = 4 THEN 2 ELSE 1
        is_load == op \in {OpCode.Load8, OpCode.Load16, OpCode.Load32}
        fx == IF is_load THEN [ins |-> <<1>>, outs |-> <<cells>>]
              ELSE [ins |-> <<cells, 1>>, outs |-> <<>>]
    IN  IF ~stack_effect(mm, fx) THEN Err(mm, "MemoryAccessError")
        ELSE
        LET target_address == fx_get(mm, fx, Len(fx.ins))
            m == mm.raw_memory
        IN  IF is_load
            THEN Ok(fx_commit(fx_set(mm, fx, 1,
                        CASE size = 1 -> read_u8(m, target_address)
                          [] size = 2 -> read_u16(m, target_address)
                          [] OTHER -> read_u32(m, target_address)), fx), 0)
            ELSE LET value == fx_get(mm, fx, 1)
                 IN  Ok(fx_commit([mm EXCEPT !.raw_memory =
                            CASE size = 1 -> write_u8(@, target_address, W8(value))
                              [] size = 2 -> write_u16(@, target_address, value)
                              [] OTHER -> write_u32(@, target_address, value)], fx), 0)

\* the raw loads and stores: size is the number of bytes at the target
load_store(mm, op) ==
    LET size == CASE op \in {OpCode.Load8, OpCode.Store8} -> 1
                  [] op \in {OpCode.Load16, OpCode.Store16} -> 2
                  [] OTHER -> 4
        cells == IF size = 4 THEN 2 ELSE 1
        is_load == op \in {OpCode.Load8, OpCode.Load16, OpCode.Load32}
        fx == IF is_load THEN [ins |-> <<1>>, outs |-> <<cells>>]
              ELSE [ins |-> <<cells, 1>>, outs |-> <<>>]
    IN  IF ~stack_effect(mm, fx) THEN Err(mm, "MemoryAccessError")
        ELSE
        LET target_address == fx_get(mm, fx, Len(fx.ins))
            m == mm.raw_memory
        IN  IF ~validate_access(<<target_address, W16(target_address + size - 1)>>, address_range)
            THEN Err(mm, "MemoryAccessError")
            ELSE IF is_load
            THEN Ok(fx_commit(fx_set(mm, fx, 1,
                        CASE size = 1 -> read_u8(m, target_address)
                          [] size = 2 -> read_u16(m, target_address)
                          [] OTHER -> read_u32(m, target_address)), fx), 0)
            ELSE LET value == fx_get(mm, fx, 1)
                 IN  Ok(fx_commit([mm EXCEPT !.raw_memory =
                            CASE size = 1 -> write_u8(@, target_address, W8(value))
                              [] size = 2 -> write_u16(@, target_address, value)
                              [] OTHER -> write_u32(@, target_address, value)], fx), 0)

\* the opcodes that rearrange cells: [fx, from], from[j] the popped cell that
\* the j-th pushed cell receives (0: the cell is left as it is)
shuffle(op) ==
    CASE op = OpCode.Over16 -> [fx |-> [ins |-> <<1, 1>>, outs |-> <<1, 1, 1>>], from |-> <<0, 0, 1>>]
      [] op = OpCode.Over32 -> [fx |-> [ins |-> <<2, 2>>, outs |-> <<2, 2, 2>>], from |-> <<0, 0, 1>>]
      [] op = OpCode.Swap16 -> [fx |-> [ins |-> <<1, 1>>, outs |-> <<1, 1>>], from |-> <<2, 1>>]
      [] op = OpCode.Swap32 -> [fx |-> [ins |-> <<2, 2>>, outs |-> <<2, 2>>], from |-> <<2, 1>>]
      [] op = OpCode.Dup16 -> [fx |-> [ins |-> <<1>>, outs |-> <<1, 1>>], from |-> <<0, 1>>]
      [] op = OpCode.Dup32 -> [fx |-> [ins |-> <<2>>, outs |-> <<2, 2>>], from |-> <<0, 1>>]
      [] op = OpCode.Rot16 ->
            [fx |-> [ins |-> <<1, 1, 1>>, outs |-> <<1, 1, 1>>], from |-> <<2, 3, 1>>]

ShuffleOpCodes ==
    {OpCode.Over16, OpCode.Over32, OpCode.Swap16, OpCode.Swap32, OpCode.Dup16, OpCode.Dup32,
     OpCode.Rot16}

RECURSIVE shuffle_set(_, _, _, _)
\* the setters of a rearranging opcode, with the values read before any write
shuffle_set(mm, sh, values, j) ==
    IF j > Len(sh.from) THEN mm
    ELSE shuffle_set(IF sh.from[j] = 0 THEN mm ELSE fx_set(mm, sh.fx, j, values[sh.from[j]]),
                     sh, values, j + 1)

\* the opcodes of the form (a -- b)
unary(mm, op) ==
    LET fx == [ins |-> <<1>>, outs |-> <<IF op = OpCode.I16ToI32 THEN 2 ELSE 1>>]
    IN  IF ~stack_effect(mm, fx) THEN Err(mm, "MemoryAccessError")
        ELSE
        LET a == fx_get(mm, fx, 1)
        IN  IF op = OpCode.Abs16 /\ a = 32768 /\ mm.overflow_checks THEN Err(mm, "Panic")
            ELSE Ok(fx_commit(fx_set(mm, fx, 1,
                        CASE op = OpCode.Invert16 -> 65535 - a
                          [] op = OpCode.Abs16 -> IF I16(a) < 0 THEN W16(0 - I16(a)) ELSE a
                          [] OTHER -> <<a, IF a >= 32768 THEN 65535 ELSE 0>>), fx), 0)

\* the opcodes that move a cell between the stacks
transfer(mm, op) ==
    CASE op = OpCode.CallPop16 ->
            Try(call_pop_u16(mm), LAMBDA r : data_push_u16(r.s, r.val))
      [] op = OpCode.CallPush16 ->
            Try(data_pop_u16(mm), LAMBDA r : call_push_u16(r.s, r.val))
      [] op = OpCode.CallPop32 ->
            Try(call_pop_u32(mm), LAMBDA r : data_push_u32(r.s, r.val))
      [] op = OpCode.CallPush32 ->
            Try(data_pop_u32(mm), LAMBDA r : call_push_u32(r.s, r.val))
      [] op = OpCode.CallRead16 ->
            Try(call_get_u16(mm), LAMBDA r : data_push_u16(r.s, r.val))
      [] op = OpCode.CallRead32 ->
            Try(call_get_u32(mm), LAMBDA r : data_push_u32(r.s, r.val))

TransferOpCodes ==
    {OpCode.CallPop16, OpCode.CallPush16, OpCode.CallPop32, OpCode.CallPush32,
     OpCode.CallRead16, OpCode.CallRead32}

\* i / base and i % base on u32, by long division over the halves of i
div_u32(i, base) ==
    LET r1 == i[2] % base
        t1 == r1 * 256 + (i[1] \div 256)
        t2 == (t1 % base) * 256 + (i[1] % 256)
    IN  [quotient |-> <<(t1 \div base) * 256 + (t2 \div base), i[2] \div base>>,
         remainder |-> t2 % base]

\* the pictured numeric output opcodes
pno(mm, op) ==
    CASE op = OpCode.PnoInit -> Ok(clear_pno_buffer(mm), 0)
      [] op = OpCode.PnoPut -> Try(data_pop_u16(mm), LAMBDA r : pno_put(r.s, W8(r.val)))
      [] op = OpCode.PnoFinish ->
            LET fx == [ins |-> <<2>>, outs |-> <<1, 1>>]
                finished == pno_finish(mm)
            IN  IF ~stack_effect(mm, fx) THEN Err(mm, "MemoryAccessError")
                ELSE Ok(fx_commit(fx_set(fx_set(mm, fx, 1, finished[1]), fx, 2, finished[2]),
                                  fx), 0)
      [] op = OpCode.PnoPutDigit ->
            LET fx == [ins |-> <<2>>, outs |-> <<2>>]
                base == get_base(mm)
            IN  IF ~stack_effect(mm, fx) THEN Err(mm, "MemoryAccessError")
                ELSE IF base = 0 THEN Err(mm, "Panic")
                ELSE
                LET i == fx_get(mm, fx, 1)
                    divided == div_u32(i, base)
                    digit == W8(divided.remainder)
                    digit_char == IF digit < 10 THEN W8(48 + digit) ELSE W8(W8(65 + digit) - 10)
                IN  pno_put(fx_commit(fx_set(mm, fx, 1, divided.quotient), fx), digit_char)

PnoOpCodes == {OpCode.PnoInit, OpCode.PnoPut, OpCode.PnoFinish, OpCode.PnoPutDigit}

\* The opcodes that work on the memory alone and continue at address + 1.
execute_on_memory(mm, op) ==
    CASE op = OpCode.Noop -> Ok(mm, 0)
      [] op = OpCode.Drop16 -> data_pop_u16(mm)
      [] op \in ShuffleOpCodes ->
            LET sh == shuffle(op)
            IN  IF ~stack_effect(mm, sh.fx) THEN Err(mm, "MemoryAccessError")
                ELSE Ok(fx_commit(shuffle_set(mm, sh,
                            [i \in 1..Len(sh.fx.ins) |-> fx_get(mm, sh.fx, i)], 1), sh.fx), 0)
      [] op \in BinaryOpCodes ->
            LET fx == [ins |-> <<1, 1>>, outs |-> <<1>>]
            IN  IF ~stack_effect(mm, fx) THEN Err(mm, "MemoryAccessError")
                ELSE IF op = OpCode.Div16 /\ fx_get(mm, fx, 2) = 0 THEN Err(mm, "Panic")
                ELSE Ok(fx_commit(fx_set(mm, fx, 1,
                            binary_value(op, fx_get(mm, fx, 1), fx_get(mm, fx, 2))), fx), 0)
      [] op \in {OpCode.Invert16, OpCode.Abs16, OpCode.I16ToI32} -> unary(mm, op)
      [] op \in {OpCode.Load8, OpCode.Store8, OpCode.Load16, OpCode.Store16,
                 OpCode.Load32, OpCode.Store32} -> load_store(mm, op)
      [] op \in TransferOpCodes -> transfer(mm, op)
      [] op \in PnoOpCodes -> pno(mm, op)

MemoryOpCodes ==
    {OpCode.Noop, OpCode.Drop16, OpCode.Invert16, OpCode.Abs16, OpCode.I16ToI32,
     OpCode.Load8, OpCode.Store8, OpCode.Load16, OpCode.Store16, OpCode.Load32, OpCode.Store32}
    \cup ShuffleOpCodes \cup BinaryOpCodes \cup TransferOpCodes \cup PnoOpCodes

\* The bytes of the words: the byte strings the dispatcher matches, and the
\* names and literals of the input texts.
Ascii ==
    (":" :> <<58>>) @@ (";" :> <<59>>) @@ ("RECURSE" :> <<82, 69, 67, 85, 82, 83, 69>>) @@
    ("IMMEDIATE" :> <<73, 77, 77, 69, 68, 73, 65, 84, 69>>) @@ ("IF" :> <<73, 70>>) @@
    ("ELSE" :> <<69, 76, 83, 69>>) @@ ("THEN" :> <<84, 72, 69, 78>>) @@
    ("BEGIN" :> <<66, 69, 71, 73, 78>>) @@ ("WHILE" :> <<87, 72, 73, 76, 69>>) @@
    ("REPEAT" :> <<82, 69, 80, 69, 65, 84>>) @@ ("EXIT" :> <<69, 88, 73, 84>>) @@
    ("POSTPONE" :> <<80, 79, 83, 84, 80, 79, 78, 69>>) @@ ("(" :> <<40>>) @@ ("[" :> <<91>>) @@
    ("]" :> <<93>>) @@ ("TRUE" :> <<84, 82, 85, 69>>) @@ ("FALSE" :> <<70, 65, 76, 83, 69>>) @@
    ("BASE" :> <<66, 65, 83, 69>>) @@ ("HERE" :> <<72, 69, 82, 69>>) @@
    ("STATE" :> <<83, 84, 65, 84, 69>>) @@ ("PAD" :> <<80, 65, 68>>) @@
    ("OVER" :> <<79, 86, 69, 82>>) @@ ("2OVER" :> <<50, 79, 86, 69, 82>>) @@
    ("SWAP" :> <<83, 87, 65, 80>>) @@ ("2SWAP" :> <<50, 83, 87, 65, 80>>) @@
    ("DUP" :> <<68, 85, 80>>) @@ ("2DUP" :> <<50, 68, 85, 80>>) @@
    ("DROP" :> <<68, 82, 79, 80>>) @@ ("2DROP" :> <<50, 68, 82, 79, 80>>) @@
    ("ROT" :> <<82, 79, 84>>) @@ ("+" :> <<43>>) @@ ("-" :> <<45>>) @@ ("*" :> <<42>>) @@
    ("/" :> <<47>>) @@ ("@" :> <<64>>) @@ ("!" :> <<33>>) @@ ("C@" :> <<67, 64>>) @@
    ("C!" :> <<67, 33>>) @@ ("2@" :> <<50, 64>>) @@ ("2!" :> <<50, 33>>) @@ ("<" :> <<60>>) @@
    (">" :> <<62>>) @@ ("=" :> <<61>>) @@ ("INVERT" :> <<73, 78, 86, 69, 82, 84>>) @@
    ("AND" :> <<65, 78, 68>>) @@ ("OR" :> <<79, 82>>) @@ ("XOR" :> <<88, 79, 82>>) @@
    ("S>D" :> <<83, 62, 68>>) @@ ("R@" :> <<82, 64>>) @@ ("2R@" :> <<50, 82, 64>>) @@
    (">R" :> <<62, 82>>) @@ ("R>" :> <<82, 62>>) @@ ("2>R" :> <<50, 62, 82>>) @@
    ("2R>" :> <<50, 82, 62>>) @@ ("ABS" :> <<65, 66, 83>>) @@ ("S\"" :> <<83, 34>>) @@
    ("LITERAL" :> <<76, 73, 84, 69, 82, 65, 76>>) @@ ("EMIT" :> <<69, 77, 73, 84>>) @@
    ("TYPE" :> <<84, 89, 80, 69>>) @@ ("<#" :> <<60, 35>>) @@ ("HOLD" :> <<72, 79, 76, 68>>) @@
    ("#>" :> <<35, 62>>) @@ ("#" :> <<35>>) @@ (".\"" :> <<46, 34>>) @@ ("a" :> <<97>>) @@
    ("b" :> <<98>>) @@ ("0" :> <<48>>) @@ ("1" :> <<49>>) @@ ("2" :> <<50>>) @@
    ("7" :> <<55>>) @@ ("-1" :> <<45, 49>>) @@ ("x" :> <<120>>) @@ (")" :> <<41>>) @@
    ("hi\"" :> <<104, 105, 34>>) @@ ("$" :> <<36>>) @@ ("$1F" :> <<36, 49, 70>>) @@
    ("w" :> <<119>>) @@ ("36" :> <<51, 54>>) @@ ("666" :> <<54, 54, 54>>) @@
    ("32767" :> <<51, 50, 55, 54, 55>>) @@ ("32768" :> <<51, 50, 55, 54, 56>>) @@ ("1F" :> <<49, 70>>) @@ ("10" :> <<49, 48>>) @@ ("16" :> <<49, 54>>)

\* ---------------------------------------------------------------- output.rs

word_to_char(word) == word % 256

putc(mc, character) == [mc EXCEPT !.output = Append(@, word_to_char(character))]

\* ------------------------------------ opcodes.rs: the opcodes of the words

\* Emit and EmitString, the opcodes that also write to the output
emit(mc, op) ==
    LET mm == mc.memory
    IN  IF op = OpCode.Emit
        THEN LET popped == data_pop_u16(mm)
             IN  IF IsOk(popped) THEN Ok(putc([mc EXCEPT !.memory = popped.s], popped.val), 0)
                 ELSE Lift(mc, popped)
        ELSE LET fx == [ins |-> <<1, 1>>, outs |-> <<>>]
                 addr == fx_get(mm, fx, 1)
                 size == fx_get(mm, fx, 2)
             IN  IF ~stack_effect(mm, fx) THEN Err(mc, "MemoryAccessError")
                 ELSE IF addr + size > MEM_SIZE THEN Err(mc, "Panic")
                 ELSE Ok([mc EXCEPT !.memory = fx_commit(mm, fx),
                                    !.output = @ \o [i \in 1..size |->
                                                        read_u8(mm.raw_memory, addr + i - 1)]], 0)

\* OpCode::execute for an opcode without operand, which continues at address + 1
execute_trivial(mc, op) ==
    IF op \in {OpCode.Emit, OpCode.EmitString} THEN emit(mc, op)
    ELSE Lift(mc, execute_on_memory(mc.memory, op))

TrivialOpCodes == MemoryOpCodes \cup {OpCode.Emit, OpCode.EmitString}

\* ------------------------------------------------------- builtin_words.rs

\* Machine::expect_state
expect_state(mc, state) == get_state(mc.memory) = state

\* a compile_u16_literal that writes the high byte of the value first
compile_u16_literal_swapped(mm, value) ==
    Try(dict_write_opcode(mm, OpCode.Literal16), LAMBDA w :
        dict_write_u16(w.s, (value % 256) * 256 + value \div 256))

compile_u16_literal(mm, value) ==
    Try(dict_write_opcode(mm, OpCode.Literal16), LAMBDA w : dict_write_u16(w.s, value))

\* process_literal and process_constant
process_literal(mm, value) ==
    IF get_state(mm) = Interpreter THEN data_push_u16(mm, value)
    ELSE compile_u16_literal(mm, value)

\* process_trivial_opcode that executes the opcode whatever STATE is
process_trivial_opcode_executes(mc, opcode) == execute_trivial(mc, opcode)

process_trivial_opcode(mc, opcode) ==
    IF get_state(mc.memory) = Interpreter THEN execute_trivial(mc, opcode)
    ELSE Lift(mc, dict_write_opcode(mc.memory, opcode))

process_compile_only_opcode(mc, opcode) ==
    IF ~expect_state(mc, Compiler) THEN Err(mc, "IllegalMode")
    ELSE Lift(mc, dict_write_opcode(mc.memory, opcode))

\* the words compiled or executed as one opcode
TrivialWords ==
    ("OVER" :> OpCode.Over16) @@ ("2OVER" :> OpCode.Over32) @@ ("SWAP" :> OpCode.Swap16) @@
    ("2SWAP" :> OpCode.Swap32) @@ ("DUP" :> OpCode.Dup16) @@ ("2DUP" :> OpCode.Dup32) @@
    ("DROP" :> OpCode.Drop16) @@ ("ROT" :> OpCode.Rot16) @@ ("+" :> OpCode.Add16) @@
    ("-" :> OpCode.Sub16) @@ ("*" :> OpCode.Mul16) @@ ("/" :> OpCode.Div16) @@
    ("@" :> OpCode.Load16) @@ ("!" :> OpCode.Store16) @@ ("C@" :> OpCode.Load8) @@
    ("C!" :> OpCode.Store8) @@ ("2@" :> OpCode.Load32) @@ ("2!" :> OpCode.Store32) @@
    ("<" :> OpCode.Lt16) @@ (">" :> OpCode.Gt16) @@ ("=" :> OpCode.Eq16) @@
    ("INVERT" :> OpCode.Invert16) @@ ("AND" :> OpCode.And16) @@ ("OR" :> OpCode.Or16) @@
    ("XOR" :> OpCode.Xor16) @@ ("S>D" :> OpCode.I16ToI32) @@ ("ABS" :> OpCode.Abs16) @@
    ("EMIT" :> OpCode.Emit) @@ ("TYPE" :> OpCode.EmitString) @@ ("<#" :> OpCode.PnoInit) @@
    ("HOLD" :> OpCode.PnoPut) @@ ("#>" :> OpCode.PnoFinish) @@ ("#" :> OpCode.PnoPutDigit)

\* the words compiled as one opcode and refused in interpreter state
CompileOnlyWords ==
    ("R@" :> OpCode.CallRead16) @@ ("2R@" :> OpCode.CallRead32) @@ (">R" :> OpCode.CallPush16) @@
    ("R>" :> OpCode.CallPop16) @@ ("2>R" :> OpCode.CallPush32) @@ ("2R>" :> OpCode.CallPop32)

\* the words that stand for a value
ConstantWords(mm) ==
    ("TRUE" :> 65535) @@ ("FALSE" :> 0) @@
    ("BASE" :> get_reserved_address(mm, ReservedAddresses.BaseVar)) @@
    ("HERE" :> get_reserved_address(mm, ReservedAddresses.HereVar)) @@
    ("STATE" :> get_reserved_address(mm, ReservedAddresses.StateVar)) @@
    ("PAD" :> get_reserved_address(mm, ReservedAddresses.PadBuffer))

\* the word of a table whose bytes are name (the table has one)
WordOf(table, name) == CHOOSE w \in DOMAIN table : Ascii[w] = name
InTable(table, name) == \E w \in DOMAIN table : Ascii[w] = name

\* the arm of ":"
\* `:` that looks at the open definition before it looks at STATE
colon_current_word_first(mc) ==
    IF get_current_word(mc.memory) # None THEN Err(mc, "IllegalCompilerState")
    ELSE IF ~expect_state(mc, Interpreter) THEN Err(mc, "IllegalMode")
    ELSE
    LET rw == read_input_word(mc)
    IN  IF ~IsOk(rw) THEN rw
        ELSE IF rw.val = None THEN Err(rw.s, "UnexpectedInputEOF")
        ELSE
        LET mm == rw.s.memory
            article_start_address == get_dict_ptr(mm)
            previous_article_address ==
                IF mm.last_article_ptr = None THEN AddressMax ELSE mm.last_article_ptr[1]
            written ==
                Try(dict_write_u16(mm, previous_article_address), LAMBDA a :
                Try(dict_write_sized_string(a.s, rw.val[1]), LAMBDA b :
                    dict_write_opcode(b.s, OpCode.DefaultArticleStart)))
        IN  IF ~IsOk(written) THEN Lift(rw.s, written)
            ELSE Ok([rw.s EXCEPT !.memory =
                        set_state(set_current_word(written.s, Some(article_start_address)),
                                  Compiler)], 0)

\* a colon that makes the article the last one before it is closed
colon_visible_at_once(mc) ==
    IF ~expect_state(mc, Interpreter) THEN Err(mc, "IllegalMode")
    ELSE IF get_current_word(mc.memory) # None THEN Err(mc, "IllegalCompilerState")
    ELSE
    LET rw == read_input_word(mc)
    IN  IF ~IsOk(rw) THEN rw
        ELSE IF rw.val = None THEN Err(rw.s, "UnexpectedInputEOF")
        ELSE
        LET mm == rw.s.memory
            article_start_address == get_dict_ptr(mm)
            previous_article_address ==
                IF mm.last_article_ptr = None THEN AddressMax ELSE mm.last_article_ptr[1]
            written ==
                Try(dict_write_u16(mm, previous_article_address), LAMBDA a :
                Try(dict_write_sized_string(a.s, rw.val[1]), LAMBDA b :
                    dict_write_opcode(b.s, OpCode.DefaultArticleStart)))
        IN  IF ~IsOk(written) THEN Lift(rw.s, written)
            ELSE Ok([rw.s EXCEPT !.memory =
                        set_state(set_current_word(
                            [written.s EXCEPT !.last_article_ptr = Some(article_start_address)],
                            Some(article_start_address)), Compiler)], 0)

colon(mc) ==
    IF ~expect_state(mc, Interpreter) THEN Err(mc, "IllegalMode")
    ELSE IF get_current_word(mc.memory) # None THEN Err(mc, "IllegalCompilerState")
    ELSE
    LET rw == read_input_word(mc)
    IN  IF ~IsOk(rw) THEN rw
        ELSE IF rw.val = None THEN Err(rw.s, "UnexpectedInputEOF")
        ELSE
        LET mm == rw.s.memory
            article_start_address == get_dict_ptr(mm)
            previous_article_address ==
                IF mm.last_article_ptr = None THEN AddressMax ELSE mm.last_article_ptr[1]
            written ==
                Try(dict_write_u16(mm, previous_article_address), LAMBDA a :
                Try(dict_write_sized_string(a.s, rw.val[1]), LAMBDA b :
                    dict_write_opcode(b.s, OpCode.DefaultArticleStart)))
        IN  IF ~IsOk(written) THEN Lift(rw.s, written)
            ELSE Ok([rw.s EXCEPT !.memory =
                        set_state(set_current_word(written.s, Some(article_start_address)),
                                  Compiler)], 0)

\* the arm of ";"
semicolon(mc) ==
    LET article_start_address == get_current_word(mc.memory)
        written == dict_write_opcode(mc.memory, OpCode.Return)
    IN  IF ~expect_state(mc, Compiler) THEN Err(mc, "IllegalMode")
        ELSE IF article_start_address = None THEN Err(mc, "IllegalCompilerState")
        ELSE IF ~IsOk(written) THEN Lift(mc, written)
        ELSE Ok([mc EXCEPT !.memory =
                    set_state(set_current_word(
                        [written.s EXCEPT !.last_article_ptr = article_start_address], None),
                        Interpreter)], 0)

\* the arm of RECURSE
recurse(mc) ==
    LET mm == mc.memory
        article_header_address == get_current_word(mm)
    IN  IF ~expect_state(mc, Compiler) THEN Err(mc, "IllegalMode")
        ELSE IF article_header_address = None THEN Err(mc, "IllegalCompilerState")
        ELSE
        LET made == ReadableArticle_new(mm, article_header_address[1], get_used_dict_segment(mm))
        IN  IF made # "Ok" THEN Err(mc, made)
            ELSE Lift(mc, Try(dict_write_opcode(mm, OpCode.Call), LAMBDA w :
                              dict_write_u16(w.s, body_address(mm, article_header_address[1]))))

\* the arm of IMMEDIATE
immediate(mc) ==
    LET mm == mc.memory
        article == first_article(mm)
    IN  IF ~expect_state(mc, Interpreter) THEN Err(mc, "IllegalMode")
        ELSE IF article = None THEN Err(mc, "NoArticle")
        ELSE IF read_u8(mm.raw_memory, body_address(mm, article[1])) # OpCode.DefaultArticleStart
        THEN Err(mc, "UnexpectedArticleType")
        ELSE Ok([mc EXCEPT !.memory.raw_memory =
                    write_u8(@, body_address(mm, article[1]), OpCode.Noop)], 0)

\* the arms of IF, ELSE, THEN, BEGIN, WHILE, REPEAT and EXIT, on the memory
control_flow(mm, word) ==
    CASE word = "IF" ->
            Try(dict_write_opcode(mm, OpCode.GoToIfZ), LAMBDA w :
            Try(create_forward_reference(w.s), LAMBDA forward_ref :
                data_push_u16(forward_ref.s, forward_ref.val)))
      [] word = "ELSE" ->
            LET fx == [ins |-> <<1>>, outs |-> <<1>>]
                old_ref == fx_get(mm, fx, 1)
            IN  IF ~stack_effect(mm, fx) THEN Err(mm, "MemoryAccessError")
                ELSE Try(dict_write_opcode(mm, OpCode.GoTo), LAMBDA w :
                     Try(create_forward_reference(w.s), LAMBDA new_ref :
                     Try(resolve_forward_reference(fx_set(new_ref.s, fx, 1, new_ref.val), old_ref),
                         LAMBDA r : Ok(fx_commit(r.s, fx), 0))))
      [] word = "THEN" ->
            Try(data_pop_u16(mm), LAMBDA reference :
                resolve_forward_reference(reference.s, reference.val))
      [] word = "BEGIN" -> data_push_u16(mm, get_dict_ptr(mm))
      [] word = "WHILE" ->
            LET fx == [ins |-> <<1>>, outs |-> <<1, 1>>]
                dest == fx_get(mm, fx, 1)
            IN  IF ~stack_effect(mm, fx) THEN Err(mm, "MemoryAccessError")
                ELSE Try(dict_write_opcode(fx_set(mm, fx, 2, dest), OpCode.GoToIfZ), LAMBDA w :
                     Try(create_forward_reference(w.s), LAMBDA orig :
                         Ok(fx_commit(fx_set(orig.s, fx, 1, orig.val), fx), 0)))
      [] word = "REPEAT" ->
            LET fx == [ins |-> <<1, 1>>, outs |-> <<>>]
                dest == fx_get(mm, fx, 2)
                orig == fx_get(mm, fx, 1)
            IN  IF ~stack_effect(mm, fx) THEN Err(mm, "MemoryAccessError")
                ELSE Try(dict_write_opcode(mm, OpCode.GoTo), LAMBDA w :
                     Try(dict_write_u16(w.s, dest), LAMBDA d :
                     Try(resolve_forward_reference(d.s, orig), LAMBDA r :
                         Ok(fx_commit(r.s, fx), 0))))
      [] word = "EXIT" -> dict_write_opcode(mm, OpCode.Return)

\* the control-flow words, and of these the ones that call expect_state
ControlFlowWords ==
    ("IF" :> TRUE) @@ ("ELSE" :> TRUE) @@ ("THEN" :> TRUE) @@ ("BEGIN" :> TRUE) @@
    ("WHILE" :> FALSE) @@ ("REPEAT" :> FALSE) @@ ("EXIT" :> TRUE)

\* the arm of POSTPONE
postpone(mc) ==
    LET rw == read_input_word(mc)
    IN  IF ~IsOk(rw) THEN rw
        ELSE IF rw.val = None THEN Err(rw.s, "UnexpectedInputEOF")
        ELSE
        LET mm == rw.s.memory
            found == lookup_article_name_buf(mm, rw.val[1])
        IN  IF ~IsOk(found) THEN Err(rw.s, found.err)
            ELSE IF found.val # None
            THEN Lift(rw.s, Try(dict_write_opcode(mm, OpCode.Call), LAMBDA w :
                                dict_write_u16(w.s, body_address(mm, found.val[1]))))
            ELSE Lift(rw.s, Try(dict_write_opcode(mm, OpCode.ExecBuiltin), LAMBDA w :
                                dict_write_sized_string(w.s, rw.val[1])))

RECURSIVE skip_comment(_)
\* the loop of "(": read up to the closing parenthesis
skip_comment(mc) ==
    LET rd == input_read(mc.input)
        mc1 == [mc EXCEPT !.input = rd.inp]
    IN  IF rd.val = None THEN Err(mc1, "UnexpectedInputEOF")
        ELSE IF rd.val[1] = 41 THEN Ok(mc1, 0)
        ELSE skip_comment(mc1)

RECURSIVE print_string(_)
\* the loop of ." in interpreter state: copy the input to the output up to the quote
print_string(mc) ==
    LET rd == input_read(mc.input)
        mc1 == [mc EXCEPT !.input = rd.inp]
    IN  IF rd.val = None THEN Err(mc1, "UnexpectedInputEOF")
        ELSE IF rd.val[1] = 34 THEN Ok(mc1, 0)
        ELSE print_string(putc(mc1, rd.val[1]))

\* the last arm: the default fallback handler refuses the word, which is
\* then read as a literal in the radix held by BASE
fallback(mc, name) ==
    LET parsed == parse_literal(name, get_base(mc.memory))
    IN  IF parsed.err # "Ok" THEN Err(mc, parsed.err)
        ELSE IF parsed.val = None THEN Err(mc, "IllegalWord")
        ELSE Lift(mc, process_literal(mc.memory, parsed.val[1]))

process_builtin_word(mc, name_address) ==
    IF ~ReadableSizedString_new(mc.memory.raw_memory, name_address, address_range)
    THEN Err(mc, "MemoryAccessError")
    ELSE
    LET name == sized_string_as_bytes(mc.memory.raw_memory, name_address)
        mm == mc.memory
    IN  CASE name = Ascii[":"] -> colon(mc)
          [] name = Ascii[";"] -> semicolon(mc)
          [] name = Ascii["RECURSE"] -> recurse(mc)
          [] name = Ascii["IMMEDIATE"] -> immediate(mc)
          [] InTable(ControlFlowWords, name) ->
                LET word == WordOf(ControlFlowWords, name)
                IN  IF ControlFlowWords[word] /\ ~expect_state(mc, Compiler)
                    THEN Err(mc, "IllegalMode")
                    ELSE Lift(mc, control_flow(mm, word))
          [] name = Ascii["POSTPONE"] -> postpone(mc)
          [] name = Ascii["("] -> skip_comment(mc)
          [] name = Ascii["["] ->
                IF ~expect_state(mc, Compiler) THEN Err(mc, "IllegalMode")
                ELSE Ok([mc EXCEPT !.memory = set_state(mm, Interpreter)], 0)
          [] name = Ascii["]"] ->
                IF ~expect_state(mc, Interpreter) THEN Err(mc, "IllegalMode")
                ELSE Ok([mc EXCEPT !.memory = set_state(mm, Compiler)], 0)
          [] InTable(ConstantWords(mm), name) ->
                Lift(mc, process_literal(mm, ConstantWords(mm)[WordOf(ConstantWords(mm), name)]))
          [] InTable(TrivialWords, name) ->
                process_trivial_opcode(mc, TrivialWords[WordOf(TrivialWords, name)])
          [] name = Ascii["2DROP"] ->
                Try(process_trivial_opcode(mc, OpCode.Drop16), LAMBDA r :
                    process_trivial_opcode(r.s, OpCode.Drop16))
          [] InTable(CompileOnlyWords, name) ->
                process_compile_only_opcode(mc, CompileOnlyWords[WordOf(CompileOnlyWords, name)])
          [] name = Ascii["S\""] ->
                IF ~expect_state(mc, Compiler) THEN Err(mc, "IllegalMode")
                ELSE compile_string_literal(mc)
          [] name = Ascii["LITERAL"] ->
                IF ~expect_state(mc, Compiler) THEN Err(mc, "IllegalMode")
                ELSE Lift(mc, Try(data_pop_u16(mm), LAMBDA value :
                                  compile_u16_literal(value.s, value.val)))
          [] name = Ascii[".\""] ->
                IF get_state(mm) = Compiler
                THEN Try(compile_string_literal(mc), LAMBDA r :
                         Lift(r.s, dict_write_opcode(r.s.memory, OpCode.EmitString)))
                ELSE print_string(mc)
          [] OTHER -> fallback(mc, name)

\* ------------------------------------------- opcodes.rs: execute, execute_at

\* ReadableSizedString::content_range, as LiteralString uses it:
\* <<content address, length>>
content_range(m, address) ==
    <<sized_string_content_address(address), sized_string_read_length(m, address)>>

\* OpCode::execute; val is the address to continue at
execute(mc, op, address) ==
    LET mm == mc.memory
        operand_address == W16(address + 1)
        operand == read_u16(mm.raw_memory, operand_address)
        operand_ok == validate_access(<<operand_address, W16(address + 2)>>,
                                      get_used_dict_segment(mm))
        string_ok == ReadableSizedString_new(mm.raw_memory, operand_address,
                                             get_used_dict_segment(mm))
        At(r, next_address) == IF IsOk(r) THEN Ok(r.s, next_address) ELSE r
    IN  CASE op \in TrivialOpCodes \ {OpCode.Noop} ->
                LET done == execute_trivial(mc, op)
                IN  IF IsOk(done) /\ AddOverflows(mm, address, 1) THEN Err(done.s, "Panic")
                    ELSE At(done, W16(address + 1))
          [] op = OpCode.Noop \/ (op = OpCode.DefaultArticleStart /\ get_state(mm) = Interpreter) ->
                IF AddOverflows(mm, address, 1) THEN Err(mc, "Panic")
                ELSE Ok(mc, W16(address + 1))
          [] op = OpCode.DefaultArticleStart /\ get_state(mm) = Compiler ->
                LET written == Try(dict_write_opcode(mm, OpCode.Call), LAMBDA w :
                                   dict_write_u16(w.s, W16(address + 1)))
                IN  IF AddOverflows(mm, address, 1) THEN Err(mc, "Panic")
                    ELSE IF ~IsOk(written) THEN Lift(mc, written)
                    ELSE IF call_stack_depth(written.s) = 0
                    THEN Err([mc EXCEPT !.memory = written.s], "Exited")
                    ELSE Lift(mc, call_pop_u16(written.s))
          [] op = OpCode.Return ->
                IF call_stack_depth(mm) = 0 THEN Err(mc, "Exited")
                ELSE Lift(mc, call_pop_u16(mm))
          [] op \in {OpCode.Call, OpCode.Literal16, OpCode.GoTo} ->
                IF AddOverflows(mm, address, 2) THEN Err(mc, "Panic")
                ELSE IF ~operand_ok THEN Err(mc, "MemoryAccessError")
                ELSE IF op = OpCode.Call
                THEN At(Lift(mc, call_push_u16(mm, W16(address + 3))), operand)
                ELSE IF op = OpCode.Literal16
                THEN At(Lift(mc, data_push_u16(mm, operand)), W16(address + 3))
                ELSE Ok(mc, operand)
          [] op = OpCode.GoToIfZ ->
                LET value == Lift(mc, data_pop_u16(mm))
                IN  IF ~IsOk(value) THEN value
                    ELSE IF AddOverflows(mm, address, IF value.val = 0 THEN 2 ELSE 3)
                    THEN Err(value.s, "Panic")
                    ELSE IF value.val # 0 THEN Ok(value.s, W16(address + 3))
                    ELSE IF ~operand_ok THEN Err(value.s, "MemoryAccessError")
                    ELSE Ok(value.s, operand)
          [] op = OpCode.LiteralString ->
                LET fx == [ins |-> <<>>, outs |-> <<1, 1>>]
                    string_range == content_range(mm.raw_memory, operand_address)
                IN  IF AddOverflows(mm, address, 1) THEN Err(mc, "Panic")
                    ELSE IF ~string_ok \/ ~stack_effect(mm, fx) THEN Err(mc, "MemoryAccessError")
                    ELSE Ok([mc EXCEPT !.memory =
                                fx_commit(fx_set(fx_set(mm, fx, 1, string_range[1]), fx, 2,
                                                 string_range[2]), fx)],
                            W16(string_range[1] + string_range[2]))
          [] op = OpCode.ExecBuiltin ->
                IF AddOverflows(mm, address, 1) THEN Err(mc, "Panic")
                ELSE IF ~string_ok THEN Err(mc, "MemoryAccessError")
                ELSE At(process_builtin_word(mc, operand_address),
                        W16(sized_string_full_range(mm.raw_memory, operand_address)[2] + 1))

\* the values OpCode::from_int accepts
OpCodes == {OpCode[f] : f \in DOMAIN OpCode}

\* MachineError::IllegalOpCodeError { address, op_code }
IllegalOpCodeError(mc, address, op_code) ==
    [err |-> "IllegalOpCodeError", val |-> <<address, op_code>>, s |-> mc]

\* execute_at where a byte that is no opcode is skipped
execute_at_skips_illegal(mc, address) ==
    LET op_code == read_u8(mc.memory.raw_memory, address)
    IN  IF op_code \notin OpCodes THEN Ok(mc, W16(address + 1))
        ELSE execute(mc, op_code, address)

\* execute_at where every Return ends the run
execute_at_return_exits(mc, address) ==
    LET op_code == read_u8(mc.memory.raw_memory, address)
    IN  IF op_code \notin OpCodes THEN IllegalOpCodeError(mc, address, op_code)
        ELSE IF op_code = OpCode.Return THEN Err(mc, "Exited")
        ELSE execute(mc, op_code, address)

\* execute_at where the start opcode of an article is a Noop in both states
execute_at_start_falls_through(mc, address) ==
    LET op_code == read_u8(mc.memory.raw_memory, address)
    IN  IF op_code \notin OpCodes THEN IllegalOpCodeError(mc, address, op_code)
        ELSE IF op_code = OpCode.DefaultArticleStart THEN execute(mc, OpCode.Noop, address)
        ELSE execute(mc, op_code, address)

\* execute_at where a Noop acts as the start opcode of an article
execute_at_noop_compiles(mc, address) ==
    LET op_code == read_u8(mc.memory.raw_memory, address)
    IN  IF op_code \notin OpCodes THEN IllegalOpCodeError(mc, address, op_code)
        ELSE IF op_code = OpCode.Noop THEN execute(mc, OpCode.DefaultArticleStart, address)
        ELSE execute(mc, op_code, address)

execute_at(mc, address) ==
    LET op_code == read_u8(mc.memory.raw_memory, address)
    IN  IF op_code \notin OpCodes THEN IllegalOpCodeError(mc, address, op_code)
        ELSE execute(mc, op_code, address)

\* ------------------------------------------------- machine.rs: execute_word

\* execute_word asking the dispatcher first, and the dictionary for the words
\* the dispatcher does not know
execute_word_builtin_first(mc, name_address) ==
    LET r == process_builtin_word(mc, name_address)
        found == lookup_article_name_buf(mc.memory, name_address)
    IN  IF r.err # "IllegalWord" \/ ~IsOk(found) \/ found.val = None
        THEN [at |-> "process_builtin_word", run |-> None, r |-> r]
        ELSE [at |-> "run_until_exit",
              run |-> Some(body_address(mc.memory, found.val[1])), r |-> Ok(mc, 0)]

\* Machine::execute_word up to the call of run_until_exit: run is Some(body
\* address) when an article was found, and otherwise r is what has been returned
\* by the call named by at
execute_word(mc, name_address) ==
    LET found == lookup_article_name_buf(mc.memory, name_address)
    IN  IF ~IsOk(found)
        THEN [at |-> "lookup_article_name_buf", run |-> None, r |-> Err(mc, found.err)]
        ELSE IF found.val # None
        THEN [at |-> "run_until_exit",
              run |-> Some(body_address(mc.memory, found.val[1])), r |-> Ok(mc, 0)]
        ELSE [at |-> "process_builtin_word", run |-> None,
              r |-> process_builtin_word(mc, name_address)]

\* where the interpreter is: idle, or inside interpret_input at the reading of
\* a word, at execute_word, or in run_forever at an address; depth records the
\* depth of the call stack when run_until_exit was entered, and is 0 elsewhere
Idle == [at |-> "idle", address |-> 0, depth |-> 0]

\* ------------------------------------------ the primitives as operations

\* A panic ends the process: nothing is called afterwards.
Alive == result.err # "Panic"

DataBytes(mm) == mm.stacks_border - mm.data_stack_ptr
CallBytes(mm) == mm.reserved_space_start - mm.call_stack_ptr

\* The values the operations are called with.
DataValues16 == {258}
DataValues32 == {<<3085, 2571>>}
CallValues16 == {1}
CallValues32 == {<<1, 1>>}
DictValues8 == {17}
DictValues16 == {8755}
DictValues32 == {<<26231, 17493>>}
InputWords == {<<97>>}
StringLiterals == {<<>>, <<104, 105>>}

\* The layouts MachineMemory::new is called with: a small call stack (and a
\* large data space), and a small data space (and a large call stack).
SmallDataCallDepth == (AddressMax - ReservedAddresses.Max) \div 2 - DataSpaceWords
MemConfigs == {SmallCallDepth, SmallDataCallDepth}

\* One call of a MachineMemory method: the memory and the returned value.
MemStep(op, r) ==
    /\ machine' = [machine EXCEPT !.memory = r.s]
    /\ result' = [op |-> op, err |-> r.err, val |-> r.val]
    /\ UNCHANGED run

DataPushU16 ==
    /\ Alive
    /\ \E v \in DataValues16 :
        LET r == data_push_u16(machine.memory, v)
        IN  /\ MemStep("data_push_u16", r)
            /\ words' = IF IsOk(r) THEN Append(words, v) ELSE words

DataPushU32 ==
    /\ Alive
    /\ \E v \in DataValues32 :
        LET r == data_push_u32(machine.memory, v)
        IN  /\ MemStep("data_push_u32", r)
            /\ words' = IF IsOk(r) THEN words \o <<v[2], v[1]>> ELSE words

DataPopU16 ==
    /\ Alive
    /\ LET r == data_pop_u16(machine.memory)
       IN  /\ MemStep("data_pop_u16", r)
           /\ words' = IF IsOk(r) THEN SubSeq(words, 1, Len(words) - 1) ELSE words

DataPopU32 ==
    /\ Alive
    /\ LET r == data_pop_u32(machine.memory)
       IN  /\ MemStep("data_pop_u32", r)
           /\ words' = IF IsOk(r) THEN SubSeq(words, 1, Len(words) - 2) ELSE words

CallPushU16 ==
    /\ Alive
    /\ \E v \in CallValues16 : MemStep("call_push_u16", call_push_u16(machine.memory, v))
    /\ UNCHANGED words

CallPushU32 ==
    /\ Alive
    /\ \E v \in CallValues32 : MemStep("call_push_u32", call_push_u32(machine.memory, v))
    /\ UNCHANGED words

CallPopU16 ==
    /\ Alive /\ MemStep("call_pop_u16", call_pop_u16(machine.memory)) /\ UNCHANGED words

CallPopU32 ==
    /\ Alive /\ MemStep("call_pop_u32", call_pop_u32(machine.memory)) /\ UNCHANGED words

CallGetU16 ==
    /\ Alive /\ MemStep("call_get_u16", call_get_u16(machine.memory)) /\ UNCHANGED words

CallGetU32 ==
    /\ Alive /\ MemStep("call_get_u32", call_get_u32(machine.memory)) /\ UNCHANGED words

DictWriteU8 ==
    /\ Alive
    /\ \E v \in DictValues8 : MemStep("dict_write_u8", dict_write_u8(machine.memory, v))
    /\ UNCHANGED words

DictWriteOpcode ==
    /\ Alive
    /\ MemStep("dict_write_opcode", dict_write_opcode(machine.memory, OpCode.Return))
    /\ UNCHANGED words

DictWriteU16 ==
    /\ Alive
    /\ \E v \in DictValues16 : MemStep("dict_write_u16", dict_write_u16(machine.memory, v))
    /\ UNCHANGED words

DictWriteU32 ==
    /\ Alive
    /\ \E v \in DictValues32 : MemStep("dict_write_u32", dict_write_u32(machine.memory, v))
    /\ UNCHANGED words

\* read_input_word on an input holding one word
ReadInputWord ==
    /\ Alive
    /\ \E w \in InputWords :
        LET r == read_input_word([machine EXCEPT !.input = StaticStringInput_new(w)])
        IN  /\ machine' = r.s
            /\ result' = [op |-> "read_input_word", err |-> r.err, val |-> Len(w)]
    /\ UNCHANGED <<words, run>>

\* the source is the word buffer, which read_input_word fills
DictWriteSizedString ==
    /\ Alive
    /\ MemStep("dict_write_sized_string",
               dict_write_sized_string(machine.memory,
                    get_reserved_address(machine.memory, ReservedAddresses.WordBuffer)))
    /\ UNCHANGED words

CreateForwardReference ==
    /\ Alive
    /\ MemStep("create_forward_reference", create_forward_reference(machine.memory))
    /\ UNCHANGED words

\* compile_string_literal on an input holding the literal and its closing quote
CompileStringLiteral ==
    /\ Alive
    /\ \E s \in StringLiterals :
        LET r == compile_string_literal(
                    [machine EXCEPT !.input = StaticStringInput_new(s \o <<34>>)])
        IN  /\ machine' = r.s
            /\ result' = [op |-> "compile_string_literal", err |-> r.err, val |-> Len(s)]
    /\ UNCHANGED <<words, run>>

\* A behaviour of SpecMem makes at most MaxOps calls.
Counted(A) == nops < MaxOps /\ A /\ nops' = nops + 1 /\ UNCHANGED articles
Uncounted(A) == A /\ UNCHANGED <<nops, articles>>

InitMem ==
    /\ \E d \in MemConfigs, c \in BOOLEAN : machine = Machine_new(<<>>, d, c)
    /\ result = [op |-> "new", err |-> "Ok", val |-> 0]
    /\ words = <<>>
    /\ run = Idle
    /\ nops = 0
    /\ articles = <<>>

\* a forward reference is resolved at any address
RefAddresses == {0, 1, 65535}
ResolveForwardReference ==
    /\ Alive
    /\ \E address \in RefAddresses :
           MemStep("resolve_forward_reference",
                   resolve_forward_reference(machine.memory, address))
    /\ UNCHANGED words

Reset ==
    /\ Alive
    /\ MemStep("reset", Ok(reset(machine.memory), 0))
    /\ words' = <<>>

NextMem ==
    \/ Counted(DataPushU16) \/ Counted(DataPushU32)
    \/ Counted(DataPopU16) \/ Counted(DataPopU32)
    \/ Counted(CallPushU16) \/ Counted(CallPushU32)
    \/ Counted(CallPopU16) \/ Counted(CallPopU32)
    \/ Counted(CallGetU16) \/ Counted(CallGetU32)
    \/ Counted(DictWriteU8) \/ Counted(DictWriteOpcode)
    \/ Counted(DictWriteU16) \/ Counted(DictWriteU32)
    \/ Counted(ReadInputWord) \/ Counted(DictWriteSizedString)
    \/ Counted(CreateForwardReference) \/ Counted(CompileStringLiteral)

SpecMem == InitMem /\ [][NextMem]_vars

\* The primitives of MachineMemory alone: the stacks, the dictionary writes,
\* the forward references and reset.
NextPrimitives ==
    \/ Counted(DataPushU16) \/ Counted(DataPushU32)
    \/ Counted(DataPopU16) \/ Counted(DataPopU32)
    \/ Counted(CallPushU16) \/ Counted(CallPushU32)
    \/ Counted(CallPopU16) \/ Counted(CallPopU32)
    \/ Counted(CallGetU16) \/ Counted(CallGetU32)
    \/ Counted(DictWriteU8) \/ Counted(DictWriteOpcode)
    \/ Counted(DictWriteU16) \/ Counted(DictWriteU32)
    \/ Counted(ReadInputWord) \/ Counted(DictWriteSizedString)
    \/ Counted(CreateForwardReference) \/ Counted(ResolveForwardReference)
    \/ Counted(Reset)

SpecPrimitives == InitMem /\ [][NextPrimitives]_vars

\* The data stack alone, in the default layout and in the small one.
InitData ==
    /\ \E d \in {DefaultMaxCallStackDepth, SmallDataCallDepth} :
            machine = Machine_new(<<>>, d, TRUE)
    /\ result = [op |-> "new", err |-> "Ok", val |-> 0]
    /\ words = <<>>
    /\ run = Idle
    /\ nops = 0
    /\ articles = <<>>

NextData ==
    \/ Counted(DataPushU16) \/ Counted(DataPushU32)
    \/ Counted(DataPopU16) \/ Counted(DataPopU32)

SpecData == InitData /\ [][NextData]_vars

\* The call stack alone, in the default layout (test_call_stack_overflow).
InitCall ==
    /\ machine = Machine_new(<<>>, DefaultMaxCallStackDepth, TRUE)
    /\ result = [op |-> "new", err |-> "Ok", val |-> 0]
    /\ words = <<>>
    /\ run = Idle
    /\ nops = 0
    /\ articles = <<>>

NextCall ==
    \/ Uncounted(CallPushU16) \/ Uncounted(CallPushU32)
    \/ Uncounted(CallPopU16) \/ Uncounted(CallPopU32)
    \/ Uncounted(CallGetU16) \/ Uncounted(CallGetU32)

SpecCall == InitCall /\ [][NextCall]_vars

\* --------------------------------------------- the interpreter as operations

\* the text of a line of words
RECURSIVE Text(_)
Text(line) ==
    IF line = <<>> THEN <<>>
    ELSE IF Len(line) = 1 THEN Ascii[line[1]]
    ELSE Ascii[line[1]] \o <<32>> \o Text(Tail(line))

\* The texts interpret_input is called on: colon definitions (one of them of
\* a name the dispatcher knows, one never closed) and their uses.
DefinitionTexts ==
    {Text(<<"1">>), Text(<<"a">>), Text(<<"b">>), Text(<<"+">>),
     Text(<<":", "a", "7", ";">>), Text(<<":", "a", "1", "+", ";">>),
     Text(<<":", "+", "2", ";">>), Text(<<":", "b", "a", ";", "IMMEDIATE">>),
     Text(<<":", "x">>), Text(<<"POSTPONE", "+", ";">>)}

\* and the texts that store to the arena, recurse or fail
InputTexts ==
    DefinitionTexts \cup
    {Text(<<"2DROP">>), Text(<<"-1", "HERE", "!">>), Text(<<"HERE", "@">>),
     Text(<<":", "x", "RECURSE", ";", "x">>), Text(<<"S\"", "hi\"">>), Text(<<":">>),
     Text(<<"1", "]", "S\"", "hi\"">>)}

\* the article that the step has completed, if it has completed one
Completed ==
    LET ptr == machine'.memory.last_article_ptr
    IN  IF ptr # machine.memory.last_article_ptr /\ ptr # None
        THEN <<[name |-> article_name(machine'.memory, ptr[1]), header |-> ptr[1]]>>
        ELSE <<>>

\* interpret_input is called on a new input
InterpretInput(texts) ==
    /\ Alive
    /\ run.at = "idle"
    /\ nops < MaxInputs
    /\ \E text \in texts : machine' = [machine EXCEPT !.input = StaticStringInput_new(text)]
    /\ run' = [at |-> "read_input_word", address |-> 0, depth |-> 0]
    /\ result' = [op |-> "interpret_input", err |-> "Ok", val |-> 0]
    /\ nops' = nops + 1
    /\ UNCHANGED <<words, articles>>

\* interpret_input is called again after an error, on the rest of the input
InterpretAgain ==
    /\ Alive
    /\ run.at = "idle"
    /\ result.err # "Ok"
    /\ machine.input.offset < Len(machine.input.text)
    /\ run' = [at |-> "read_input_word", address |-> 0, depth |-> 0]
    /\ result' = [op |-> "interpret_input", err |-> "Ok", val |-> 0]
    /\ UNCHANGED <<machine, words, articles, nops>>

\* interpret_input reads the next word, and returns at the end of the input
ReadWord ==
    /\ Alive
    /\ run.at = "read_input_word"
    /\ \E r \in {read_input_word(machine)} :
           /\ machine' = r.s
           /\ result' = [op |-> "read_input_word", err |-> r.err,
                        val |-> IF IsOk(r) THEN Len(r.val) ELSE 0]
           /\ run' = IF IsOk(r) /\ r.val # None
                     THEN [at |-> "execute_word", address |-> r.val[1], depth |-> 0]
                     ELSE [at |-> "idle", address |-> 0, depth |-> 0]
    /\ UNCHANGED <<words, nops, articles>>

\* an execute_word whose error does not end interpret_input
ExecuteWordGoesOn ==
    /\ Alive
    /\ run.at = "execute_word"
    /\ \E x \in {execute_word(machine, run.address)} :
           /\ machine' = x.r.s
           /\ result' = [op |-> x.at, err |-> x.r.err,
                        val |-> IF x.run # None THEN x.run[1] ELSE 0]
           /\ run' = IF x.run # None THEN [at |-> "run_forever", address |-> x.run[1],
                                              depth |-> call_stack_depth(machine.memory)]
                     ELSE [at |-> "read_input_word", address |-> 0, depth |-> 0]
    /\ articles' = articles \o Completed
    /\ UNCHANGED <<words, nops>>

\* execute_word: the lookup, and the built-in word when no article is found
ExecuteWord ==
    /\ Alive
    /\ run.at = "execute_word"
    /\ \E x \in {execute_word(machine, run.address)} :
           /\ machine' = x.r.s
           /\ result' = [op |-> x.at, err |-> x.r.err,
                        val |-> IF x.run # None THEN x.run[1] ELSE 0]
           /\ run' = IF x.run # None THEN [at |-> "run_forever", address |-> x.run[1],
                                              depth |-> call_stack_depth(machine.memory)]
                     ELSE IF IsOk(x.r) THEN [at |-> "read_input_word", address |-> 0, depth |-> 0]
                     ELSE [at |-> "idle", address |-> 0, depth |-> 0]
    /\ articles' = articles \o Completed
    /\ UNCHANGED <<words, nops>>

\* one turn of run_forever; run_until_exit turns Exited into Ok
ExecuteAt ==
    /\ Alive
    /\ run.at = "run_forever"
    /\ \E r \in {execute_at(machine, run.address)} :
           /\ machine' = r.s
           /\ result' = [op |-> "execute_at", err |-> r.err, val |-> run.address]
           /\ run' = IF IsOk(r) THEN [run EXCEPT !.address = r.val]
                     ELSE IF r.err = "Exited"
                     THEN [at |-> "read_input_word", address |-> 0, depth |-> 0]
                     ELSE [at |-> "idle", address |-> 0, depth |-> 0]
    /\ articles' = articles \o Completed
    /\ UNCHANGED <<words, nops>>

\* The machine in the default layout and in the one with a small data space.
Init ==
    /\ \E d \in {DefaultMaxCallStackDepth, SmallDataCallDepth}, c \in BOOLEAN :
            machine = Machine_new(<<>>, d, c)
    /\ result = [op |-> "new", err |-> "Ok", val |-> 0]
    /\ words = <<>>
    /\ run = Idle
    /\ nops = 0
    /\ articles = <<>>

Next ==
    \/ InterpretInput(InputTexts)
    \/ InterpretAgain
    \/ ReadWord
    \/ ExecuteWord
    \/ ExecuteAt

Spec == Init /\ [][Next]_vars

\* The machine fed with definitions and their uses only.
NextDefs ==
    \/ InterpretInput(DefinitionTexts)
    \/ InterpretAgain
    \/ ReadWord
    \/ ExecuteWord
    \/ ExecuteAt

SpecDefs == Init /\ [][NextDefs]_vars

\* The machine fed with a definition, an immediate word whose body calls it at
\* its start opcode, uses of both in both states, and the words that change
\* the state or the article type.
ImmediateTexts ==
    {Text(<<":", "a", "7", ";">>), Text(<<":", "b", "POSTPONE", "a", ";", "IMMEDIATE">>),
     Text(<<":", "x", "b">>), Text(<<"a">>), Text(<<"b">>), Text(<<"IMMEDIATE">>),
     Text(<<"[">>), Text(<<"]">>)}

NextImm ==
    \/ InterpretInput(ImmediateTexts)
    \/ InterpretAgain
    \/ ReadWord
    \/ ExecuteWord
    \/ ExecuteAt

SpecImm == Init /\ [][NextImm]_vars

\* The machine fed with a definition, a store over the last byte of its body,
\* and its use.
StoreTexts ==
    {Text(<<":", "a", "7", ";">>), Text(<<"-1", "7", "!">>), Text(<<"a">>), Text(<<"1">>)}

NextStore ==
    \/ InterpretInput(StoreTexts)
    \/ InterpretAgain
    \/ ReadWord
    \/ ExecuteWord
    \/ ExecuteAt

SpecStore == Init /\ [][NextStore]_vars

\* The machine fed with words that are no articles and no built-in names:
\* numbers in decimal, with a sign, with a prefix, digits of other bases, a
\* name that is no number and a prefix alone; with the words that change
\* BASE and STATE, and a definition and its use.
LiteralTexts ==
    {Text(<<"7">>), Text(<<"-1">>), Text(<<"10">>), Text(<<"1F">>), Text(<<"$1F">>),
     Text(<<"x">>), Text(<<"$">>), Text(<<"x", "7">>), Text(<<"]">>),
     Text(<<"2", "BASE", "!">>), Text(<<"16", "BASE", "!">>), Text(<<"1", "BASE", "!">>),
     Text(<<":", "a", "7", ";">>), Text(<<"a">>)}

NextLiterals ==
    \/ InterpretInput(LiteralTexts)
    \/ InterpretAgain
    \/ ReadWord
    \/ ExecuteWord
    \/ ExecuteAt

SpecLiterals == Init /\ [][NextLiterals]_vars

\* The machine fed once with a number, a radix stored into BASE, and the words
\* that format the number as pictured numeric output with as many digits as a
\* cell has in that radix, or one more.
RoundTripValues == {"0", "666", "32767", "-1", "32768"}
RoundTripRadixes == {"2", "10", "16", "36"}
\* the number a word of the text is in decimal
Entered(word) == parse_literal(Ascii[word], 10).val[1]
\* the digits 65535 has in a radix
CellDigits(radix) ==
    CASE Entered(radix) = 2 -> 16
      [] Entered(radix) = 10 -> 5
      [] OTHER -> 4
RoundTripText(value, radix, digits) ==
    Text(<<value, radix, "BASE", "!", "S>D", "<#">> \o [i \in 1..digits |-> "#"] \o <<"#>">>)
RoundTripTexts ==
    {RoundTripText(value, radix, CellDigits(radix) + more) :
        value \in RoundTripValues, radix \in RoundTripRadixes, more \in {0, 1}}

NextRoundTrip ==
    \/ nops = 0 /\ InterpretInput(RoundTripTexts)
    \/ ReadWord
    \/ ExecuteWord

SpecRoundTrip == Init /\ [][NextRoundTrip]_vars

\* The machine fed with an immediate word that postpones the built-in THEN,
\* a word that postpones an article, and definitions that use them.
PostponeTexts ==
    {Text(<<":", "w", "POSTPONE", "THEN", ";", "IMMEDIATE">>),
     Text(<<":", "x", "IF", "w", ";">>),
     Text(<<":", "a", "7", ";">>),
     Text(<<":", "b", "POSTPONE", "a", ";">>),
     Text(<<"b">>), Text(<<"1", "x">>)}

NextPostpone ==
    \/ InterpretInput(PostponeTexts)
    \/ InterpretAgain
    \/ ReadWord
    \/ ExecuteWord
    \/ ExecuteAt

SpecPostpone == Init /\ [][NextPostpone]_vars

\* The machine fed with numbers that are no forward references, an open
\* definition, and the words that resolve a forward reference.
SpuriousTexts ==
    {Text(<<"7">>), Text(<<"-1">>), Text(<<"7", "1">>), Text(<<"-1", "1">>),
     Text(<<":", "x">>), Text(<<"THEN">>), Text(<<"ELSE">>), Text(<<"REPEAT">>)}

NextSpurious ==
    \/ InterpretInput(SpuriousTexts)
    \/ ReadWord
    \/ ExecuteWord

SpecSpurious == Init /\ [][NextSpurious]_vars

\* The machine fed with the words that compile a postponed word, a literal
\* from the stack and a string, in both states.
\* The raw loads and stores of 16 and 32 bits, on values and addresses pushed
\* before: a dictionary address, the address of the first cell of the data
\* stack, and the last three addresses of the arena. In this specification
\* words is the list of the calls made, <<name, argument, error>>.
AccessValues == {7, 64510, 65533, 65534, 65535}
AccessOpCodes == {OpCode.Load16, OpCode.Store16, OpCode.Load32, OpCode.Store32}

AccessPush ==
    /\ Alive
    /\ nops < MaxAccessOps
    /\ \E v \in AccessValues :
           /\ MemStep("data_push_u16", data_push_u16(machine.memory, v))
           /\ words' = Append(words, <<"push", v, result'.err>>)
    /\ nops' = nops + 1
    /\ UNCHANGED articles

AccessExecute ==
    /\ Alive
    /\ nops < MaxAccessOps
    /\ \E op \in AccessOpCodes :
           /\ MemStep("execute", load_store(machine.memory, op))
           /\ words' = Append(words, <<"execute", op, result'.err>>)
    /\ nops' = nops + 1
    /\ UNCHANGED articles

NextAccess == AccessPush \/ AccessExecute
SpecAccess == InitCall /\ [][NextAccess]_vars

\* The pictured numeric output buffer alone: it is cleared, filled with
\* pno_put until a put fails, and read with pno_finish. In this specification
\* words is the list of the bytes put since the last clear_pno_buffer, and
\* nops tells that the buffer was cleared. The first MaxChosenPuts bytes are
\* any of PnoBytes, the later ones are the digit of their position.
PnoBytes == {0, 49}
PnoByteAt(position) ==
    IF position <= MaxChosenPuts THEN PnoBytes ELSE {48 + (position % 10)}

ClearPnoBuffer ==
    /\ Alive
    /\ machine' = [machine EXCEPT !.memory = clear_pno_buffer(@)]
    /\ result' = [op |-> "clear_pno_buffer", err |-> "Ok", val |-> 0]
    /\ words' = <<>>
    /\ nops' = 1
    /\ UNCHANGED <<run, articles>>

PnoPut ==
    /\ Alive
    /\ nops = 1
    /\ \E ch \in PnoByteAt(Len(words) + 1) :
           \E r \in {pno_put(machine.memory, ch)} :
               /\ MemStep("pno_put", r)
               /\ words' = IF IsOk(r) THEN Append(words, ch) ELSE words
    /\ UNCHANGED <<nops, articles>>

\* val is <<address, size>>
PnoFinish ==
    /\ Alive
    /\ nops = 1
    /\ result' = [op |-> "pno_finish", err |-> "Ok", val |-> pno_finish(machine.memory)]
    /\ UNCHANGED <<machine, words, run, nops, articles>>

NextPno == ClearPnoBuffer \/ PnoPut \/ PnoFinish
SpecPno == InitCall /\ [][NextPno]_vars

\* The sources parse_literal is applied to: an optional radix prefix, an
\* optional minus and digits, which are all the strings of up to MaxDigits
\* bytes of 0 1 9 F z and the full stop, and the numbers next to the limits
\* of 15 and 16 bits.
DigitBytes == {48, 49, 57, 70, 122, 46}
LimitDigits ==
    {Ascii["32767"], Ascii["32768"], <<54, 53, 53, 51, 53>>, <<54, 53, 53, 51, 54>>,
     <<55, 70, 70, 70>>, <<56, 48, 48, 48>>, <<70, 70, 70, 70>>, <<49, 48, 48, 48, 48>>,
     [i \in 1..15 |-> 49], [i \in 1..16 |-> IF i = 1 THEN 49 ELSE 48], [i \in 1..16 |-> 49],
     [i \in 1..17 |-> IF i = 1 THEN 49 ELSE 48], <<48, 48, 48, 48, 48, 48, 49>>}
DigitStrings == UNION {[1..n -> DigitBytes] : n \in 0..MaxDigits} \cup LimitDigits
ParseSources == {p \o s \o d : p \in {<<>>, <<35>>, <<36>>, <<37>>}, s \in {<<>>, <<45>>}, d \in DigitStrings}
\* the values of BASE
ParseRadixes == {0, 2, 10, 16, 36, 37}

\* the machine with radix in BASE
WithBase(mc, radix) ==
    [mc EXCEPT !.memory.raw_memory =
        write_u16(@, get_reserved_address(mc.memory, ReservedAddresses.BaseVar), radix)]

InitParse ==
    /\ \E source \in ParseSources, radix \in ParseRadixes :
            machine = WithBase(Machine_new(source, DefaultMaxCallStackDepth, FALSE), radix)
    /\ result = [op |-> "new", err |-> "Ok", val |-> 0]
    /\ words = <<>>
    /\ run = Idle
    /\ nops = 0
    /\ articles = <<>>

\* parse_literal on the source and the value of BASE, as the dispatcher calls it
ParseLiteral ==
    /\ result.op = "new"
    /\ \E r \in {parse_literal(machine.input.text, get_base(machine.memory))} :
           result' = [op |-> "parse_literal", err |-> r.err, val |-> r.val]
    /\ UNCHANGED <<machine, words, run, nops, articles>>

SpecParse == InitParse /\ [][ParseLiteral]_vars

\* The machine fed with definitions (one of them open, one that fails in the
\* body of the article it calls and leaves a return address on the call
\* stack), their uses, a number and a store to BASE, and reset between the texts.
ResetTexts ==
    {Text(<<":", "a", "+", ";">>), Text(<<":", "b", "a", ";">>), Text(<<"a">>), Text(<<"b">>),
     Text(<<":", "x">>), Text(<<"1">>), Text(<<"2", "BASE", "!">>)}
ResetIdle == run = Idle /\ Uncounted(Reset)
NextReset ==
    \/ InterpretInput(ResetTexts)
    \/ ReadWord
    \/ ExecuteWord
    \/ ExecuteAt
    \/ ResetIdle
SpecReset == Init /\ [][NextReset]_vars

\* A sequence of literals, constant words and stack and arithmetic words is
\* fed to a fresh machine; then a second machine of the same layout and build
\* is fed with the definition of f with that sequence as its body, and f. In
\* this specification words holds, once the second machine is made, the
\* outcome of the first: the error and the 16-bit words of the data stack.
BodyWords == {"1", "-1", "0", "TRUE", "+", "/", "DUP", "SWAP"}
Bodies == UNION {[1..n -> BodyWords] : n \in 1..MaxWords}
\* the 16-bit words of the data stack, the top first
StackWords(mm) ==
    [i \in 1..data_stack_depth(mm) |-> read_u16(mm.raw_memory, mm.data_stack_ptr + 2 * (i - 1))]
\* interpret_input has returned, or the process has aborted
Returned == (run = Idle /\ result.op \notin {"new", "interpret_input"}) \/ ~Alive

ExecuteDirectly == nops = 0 /\ InterpretInput({Text(body) : body \in Bodies})

\* Machine::new, and interpret_input on the definition and its use
ExecuteCompiled ==
    /\ nops = 1
    /\ Returned
    /\ machine' =
           Machine_new(Ascii[":"] \o <<32, 102, 32>> \o machine.input.text \o <<32>>
                           \o Ascii[";"] \o <<32, 102>>,
                       (machine.memory.reserved_space_start - machine.memory.stacks_border) \div 2,
                       machine.memory.overflow_checks)
    /\ words' = <<[err |-> result.err, stack |-> StackWords(machine.memory)]>>
    /\ run' = [at |-> "read_input_word", address |-> 0, depth |-> 0]
    /\ result' = [op |-> "interpret_input", err |-> "Ok", val |-> 0]
    /\ nops' = 2
    /\ articles' = <<>>

\* the default layout, the small one and the one between them
InitRefine ==
    /\ \E d \in {DefaultMaxCallStackDepth, SmallDataCallDepth,
                  (AddressMax - ReservedAddresses.Max) \div 2 - MidDataSpaceWords},
          c \in BOOLEAN :
            machine = Machine_new(<<>>, d, c)
    /\ result = [op |-> "new", err |-> "Ok", val |-> 0]
    /\ words = <<>>
    /\ run = Idle
    /\ nops = 0
    /\ articles = <<>>

NextRefine == ExecuteDirectly \/ ExecuteCompiled \/ ReadWord \/ ExecuteWord \/ ExecuteAt
SpecRefine == InitRefine /\ [][NextRefine]_vars

\* The machine fed once with a division, a digit of pictured numeric output,
\* a literal and a TYPE, each with operands the operation is defined on and
\* with operands it is not: a divisor 0, BASE = 0, BASE = 1, a string that
\* runs over the end of the arena; and with a division compiled into an article.
AbortTexts ==
    {Text(<<"7", "2", "/">>), Text(<<"1", "0", "/">>),
     Text(<<":", "x", "/", ";", "1", "0", "x">>),
     Text(<<"7", "0", "<#", "#", "#>">>), Text(<<"7", "0", "0", "BASE", "!", "<#", "#", "#>">>),
     Text(<<"2", "BASE", "!", "1">>), Text(<<"1", "BASE", "!", "1">>),
     Text(<<"0", "2", "TYPE">>), Text(<<"-1", "1", "TYPE">>), Text(<<"-1", "2", "TYPE">>)}
NextAbort == (nops = 0 /\ InterpretInput(AbortTexts)) \/ ReadWord \/ ExecuteWord \/ ExecuteAt
SpecAbort == Init /\ [][NextAbort]_vars

\* The words of one opcode, each in a definition that is open (with a word on
\* the data stack) and, for the words refused in interpreter state, outside one.
OpcodeWords == DOMAIN TrivialWords \cup {"2DROP"} \cup DOMAIN CompileOnlyWords
OpcodeTexts ==
    {Text(<<"1", ":", "x", w>>) : w \in OpcodeWords} \cup
    {Text(<<":", "x", w>>) : w \in OpcodeWords} \cup
    {Text(<<"1", w>>) : w \in DOMAIN CompileOnlyWords}
NextOpcodeWords == (nops = 0 /\ InterpretInput(OpcodeTexts)) \/ ReadWord \/ ExecuteWord
SpecOpcodeWords == Init /\ [][NextOpcodeWords]_vars

ModeTexts ==
    {Text(<<"POSTPONE", "a">>), Text(<<"1", "LITERAL">>), Text(<<"S\"", "hi\"">>),
     Text(<<":", "x">>), Text(<<":", "a", "7", ";">>), Text(<<"a">>)}

NextMode ==
    \/ InterpretInput(ModeTexts)
    \/ InterpretAgain
    \/ ReadWord
    \/ ExecuteWord
    \/ ExecuteAt

SpecMode == Init /\ [][NextMode]_vars

\* the control-flow marker words
MarkerWords == {"IF", "ELSE", "THEN", "BEGIN", "WHILE", "REPEAT", "EXIT", "RECURSE"}

\* The machine fed with each marker word on a line of its own, besides the
\* literals, the definition and the store of StoreTexts.
MarkerTexts == StoreTexts \cup {Text(<<word>>) : word \in MarkerWords}

NextMarkers ==
    \/ InterpretInput(MarkerTexts)
    \/ InterpretAgain
    \/ ReadWord
    \/ ExecuteWord
    \/ ExecuteAt

SpecMarkers == Init /\ [][NextMarkers]_vars

\* ------------------------------- one definition, compiled a word at a time

\* the control-flow words that push and pop compile-time cells
FlowWords == {"IF", "ELSE", "THEN", "BEGIN", "WHILE", "REPEAT"}

\* In this specification words records, for each 16-bit word of the data stack
\* from the bottom up, where it comes from: "1" for a literal pushed before
\* the definition, "IF", "ELSE" and "WHILE" for the forward reference the word
\* has left open, "BEGIN" for a loop start and "DEST" for the loop start that
\* WHILE has moved above its reference.
Top(n) == IF Len(words) < n THEN <<>> ELSE SubSeq(words, Len(words) - n + 1, Len(words))
Drop(n) == SubSeq(words, 1, Len(words) - n)

\* the word closes or continues the construct that is open on top, or opens one
WellNested(word) ==
    CASE word \in {"IF", "BEGIN"} -> TRUE
      [] word = "ELSE" -> Top(1) = <<"IF">>
      [] word = "THEN" -> Top(1) \in {<<"IF">>, <<"ELSE">>}
      [] word = "WHILE" -> Top(1) = <<"BEGIN">>
      [] word = "REPEAT" -> Top(2) = <<"WHILE", "DEST">>

\* the record of the data stack after the word
Nesting(word) ==
    CASE word \in {"1", "IF", "BEGIN"} -> Append(words, word)
      [] word = "ELSE" -> Append(Drop(1), "ELSE")
      [] word = "THEN" -> Drop(1)
      [] word = "WHILE" -> Drop(1) \o <<"WHILE", "DEST">>
      [] word = "REPEAT" -> Drop(2)
      [] OTHER -> words

\* interpret_input on a line whose first word is a built-in word: the word is
\* read and executed, the end of the input is read, and interpret_input
\* returns. The behaviour ends with the first error.
InterpretLine(word, text) ==
    /\ result.err = "Ok"
    /\ run = Idle
    /\ nops < MaxFlowWords
    /\ \E rw \in {read_input_word([machine EXCEPT !.input = StaticStringInput_new(text)])} :
           /\ IsOk(rw) /\ rw.val # None
           /\ \E x \in {execute_word(rw.s, rw.val[1])} :
                  /\ x.run = None
                  /\ \E eof \in {IF IsOk(x.r) THEN read_input_word(x.r.s) ELSE x.r} :
                         /\ machine' = eof.s
                         /\ result' = [op |-> word, err |-> eof.err, val |-> 0]
                         /\ words' = IF IsOk(eof) THEN Nesting(word) ELSE words
    /\ run' = Idle
    /\ nops' = nops + 1
    /\ articles' = articles \o Completed

\* a literal before the definition
FlowLiteral ==
    /\ get_current_word(machine.memory) = None /\ articles = <<>>
    /\ InterpretLine("1", Text(<<"1">>))

\* the definition is opened
FlowColon ==
    /\ get_current_word(machine.memory) = None /\ articles = <<>>
    /\ InterpretLine(":", Text(<<":", "x">>))

\* a control-flow word inside the definition, where the nesting allows it
FlowWord(word) ==
    /\ get_current_word(machine.memory) # None
    /\ WellNested(word)
    /\ InterpretLine(word, Text(<<word>>))

\* the definition is closed, whatever is open
FlowSemicolon ==
    /\ get_current_word(machine.memory) # None
    /\ InterpretLine(";", Text(<<";">>))

NextFlow ==
    \/ FlowLiteral
    \/ FlowColon
    \/ FlowWord("IF")
    \/ FlowWord("ELSE")
    \/ FlowWord("THEN")
    \/ FlowWord("BEGIN")
    \/ FlowWord("WHILE")
    \/ FlowWord("REPEAT")
    \/ FlowSemicolon

SpecFlow == Init /\ [][NextFlow]_vars

\* a literal compiled into the definition, as the body of the construct that
\* the last word has opened or continued
FlowBody ==
    /\ get_current_word(machine.memory) # None
    /\ result.op \in {"IF", "ELSE", "BEGIN", "WHILE"}
    /\ InterpretLine("7", Text(<<"7">>))

\* The definition with bodies between its control-flow words.
NextBranch ==
    \/ FlowLiteral
    \/ FlowColon
    \/ FlowBody
    \/ FlowWord("IF")
    \/ FlowWord("ELSE")
    \/ FlowWord("THEN")
    \/ FlowWord("BEGIN")
    \/ FlowWord("WHILE")
    \/ FlowWord("REPEAT")
    \/ FlowSemicolon

SpecBranch == Init /\ [][NextBranch]_vars

\* ------------------------------------------ the lookup on an arbitrary arena

\* The values of the arbitrary bytes: as links they lead to the addresses 0, 1
\* and 3 and, in the high byte, far beyond HERE; as lengths they make names of
\* 0, 1 and 3 bytes.
WalkByteValues == {0, 1, 3}
\* the values of HERE, the values of last_article_ptr beyond the arbitrary
\* bytes, and the names looked up
WalkHeres == {4, WalkBytes + 4}
WalkFarPointers == {AddressMax - 1}
WalkNames == {<<>>, <<3>>}

RECURSIVE write_bytes(_, _, _)
\* the arena with bytes written from address on
write_bytes(m, address, bytes) ==
    IF bytes = <<>> THEN m
    ELSE write_bytes(write_u8(m, address, Head(bytes)), address + 1, Tail(bytes))

\* A machine whose dictionary holds arbitrary bytes and whose last_article_ptr
\* is arbitrary, with a name in the word buffer, where lookup_article starts.
InitWalk ==
    /\ \E bytes \in [1..WalkBytes -> WalkByteValues], here \in WalkHeres,
          last \in {None} \cup {Some(a) : a \in (0..(WalkBytes - 1)) \cup WalkFarPointers},
          name \in WalkNames, c \in BOOLEAN :
            LET mc == Machine_new(<<>>, DefaultMaxCallStackDepth, c)
                buffer == get_reserved_address(mc.memory, ReservedAddresses.WordBuffer)
            IN  machine = [mc EXCEPT
                    !.memory = set_dict_ptr(
                        [@ EXCEPT !.last_article_ptr = last,
                                  !.raw_memory = write_bytes(write_bytes(@, 0, bytes),
                                                             buffer, <<Len(name)>> \o name)],
                        here)]
    /\ result = [op |-> "new", err |-> "Ok", val |-> None]
    /\ words = <<>>
    /\ run = [at |-> "lookup_article", address |-> 0, depth |-> 0]
    /\ nops = 0
    /\ articles = <<>>

\* lookup_article returns r: val is the article found, if one is
LookupReturns(r) ==
    /\ result' = [op |-> "lookup_article", err |-> r.err,
                  val |-> IF IsOk(r) THEN r.val ELSE None]
    /\ run' = Idle

\* lookup_article up to its loop
LookupStart ==
    /\ run.at = "lookup_article"
    /\ \E start \in {lookup_start(machine.memory)} :
           IF ~IsOk(start) \/ start.val = None
           THEN LookupReturns(start)
           ELSE /\ run' = [at |-> "lookup_turn", address |-> start.val[1], depth |-> 0]
                /\ UNCHANGED result
    /\ UNCHANGED <<machine, words, nops, articles>>

\* one turn of the loop of lookup_article; nops counts the turns that continue
LookupTurn ==
    /\ run.at = "lookup_turn"
    /\ nops <= WalkBytes
    /\ \E turn \in {lookup_turn(machine.memory, run.address,
                sized_string_as_bytes(machine.memory.raw_memory,
                    get_reserved_address(machine.memory, ReservedAddresses.WordBuffer)))} :
           IF turn.done
           THEN LookupReturns(turn.r) /\ UNCHANGED nops
           ELSE /\ run' = [at |-> "lookup_turn", address |-> turn.r.val[1], depth |-> 0]
                /\ nops' = nops + 1
                /\ UNCHANGED result
    /\ UNCHANGED <<machine, words, articles>>

NextWalk == LookupStart \/ LookupTurn

\* the call is not abandoned: a turn that can be taken is taken
SpecWalk == InitWalk /\ [][NextWalk]_vars /\ WF_vars(NextWalk)

\* ------------------------------------------------------------------ claims

HERE == get_dict_ptr(machine.memory)
HEREnext == get_dict_ptr(machine'.memory)

StackAndDictPrimitives ==
    {"data_push_u16", "data_push_u32", "data_pop_u16", "data_pop_u32",
     "call_push_u16", "call_push_u32", "call_pop_u16", "call_pop_u32",
     "call_get_u16", "call_get_u32",
     "dict_write_u8", "dict_write_u16", "dict_write_u32", "dict_write_opcode",
     "dict_write_sized_string"}

\* C2: a stack or dictionary primitive that returns an error returns
\* MemoryAccessError and leaves data_sp, call_sp, HERE and every arena byte as
\* they were (so a failed pop on an empty stack costs no capacity).
C2_FailedPrimitiveChangesNothing ==
    [][(result'.op \in StackAndDictPrimitives /\ result'.err \notin {"Ok", "Panic"})
        => (result'.err = "MemoryAccessError" /\ machine'.memory = machine.memory)]_vars

\* a pop on the empty call stack has failed and the stack is still empty
C2_Witness ==
    /\ result.op = "call_pop_u16" /\ result.err = "MemoryAccessError"
    /\ machine.memory.call_stack_ptr = machine.memory.reserved_space_start
    /\ nops > 1

\* C4: the data stack is last-in-first-out across cell sizes. words is the
\* stack of 16-bit words the calls have built (a 32-bit value is its high word
\* below its low word): a pop returns the words on top, and the depth is the
\* number of words pushed and not yet popped.
C4_DataStackLifo ==
    [][/\ data_stack_depth(machine'.memory) = Len(words')
       /\ machine'.memory.data_stack_ptr = machine'.memory.stacks_border - 2 * Len(words')
       /\ (result'.op = "data_pop_u16" /\ IsOk(result'))
            => (Len(words) >= 1 /\ result'.val = words[Len(words)])
       /\ (result'.op = "data_pop_u32" /\ IsOk(result'))
            => (Len(words) >= 2
                /\ result'.val = <<words[Len(words)], words[Len(words) - 1]>>)]_vars

\* push u16, push u32, pop u32, pop u16 has returned both values
C4_Witness ==
    /\ nops = 4 /\ result.op = "data_pop_u16" /\ IsOk(result) /\ result.val \in DataValues16
    /\ words = <<>>
    /\ read_u32(machine.memory.raw_memory, machine.memory.stacks_border - 6) \in DataValues32

PushSize(op) == IF op = "data_push_u16" THEN 2 ELSE 4

\* C5: a data-stack push of n bytes succeeds iff data_sp - n >= HERE; a push
\* that fails returns MemoryAccessError and changes nothing, and no push
\* changes a byte of the dictionary.
C5_DataPushBoundedByHere ==
    [][result'.op \in {"data_push_u16", "data_push_u32"} =>
        /\ IsOk(result') <=> (machine.memory.data_stack_ptr - PushSize(result'.op) >= HERE)
        /\ ~IsOk(result') =>
                (result'.err = "MemoryAccessError" /\ machine'.memory = machine.memory)
        /\ \A a \in 0..(HERE - 1) :
                read_u8(machine'.memory.raw_memory, a) = read_u8(machine.memory.raw_memory, a)
        /\ HEREnext = HERE]_vars

\* the dictionary has grown up to the data stack and a push has failed
C5_Witness ==
    /\ result.op = "data_push_u16" /\ result.err = "MemoryAccessError"
    /\ HERE > 0
    /\ machine.memory.data_stack_ptr < machine.memory.stacks_border
    /\ machine.memory.data_stack_ptr - 2 < HERE

\* C6: in the default layout call_push_u16 succeeds iff fewer than
\* max_call_stack_depth (128) words are on the call stack, a successful push or
\* pop moves the depth by one, and a failed push or pop changes nothing.
C6_CallStackCapacity ==
    [][/\ result'.op = "call_push_u16" =>
            /\ IsOk(result') <=> (call_stack_depth(machine.memory) < DefaultMaxCallStackDepth)
            /\ IsOk(result') =>
                    call_stack_depth(machine'.memory) = call_stack_depth(machine.memory) + 1
       /\ (result'.op = "call_pop_u16" /\ IsOk(result')) =>
                call_stack_depth(machine'.memory) = call_stack_depth(machine.memory) - 1
       /\ (result'.op \in {"call_push_u16", "call_pop_u16"} /\ ~IsOk(result')) =>
                (result'.err = "MemoryAccessError" /\ machine'.memory = machine.memory)]_vars

\* the 129th push has failed on a full call stack
C6_Witness ==
    /\ result.op = "call_push_u16" /\ result.err = "MemoryAccessError"
    /\ call_stack_depth(machine.memory) = DefaultMaxCallStackDepth

\* the bytes each successful dictionary write puts into the dictionary
BytesWritten(res) ==
    CASE res.op \in {"dict_write_u8", "dict_write_opcode"} -> 1
      [] res.op \in {"dict_write_u16", "create_forward_reference"} -> 2
      [] res.op = "dict_write_u32" -> 4
      [] res.op = "dict_write_sized_string" ->
            1 + sized_string_read_length(machine.memory.raw_memory,
                    get_reserved_address(machine.memory, ReservedAddresses.WordBuffer))
      [] res.op = "compile_string_literal" -> 1 + 1 + res.val
      [] OTHER -> 0

\* C7: every successful dictionary write advances HERE by exactly the number of
\* bytes it wrote (string literal: the opcode, the length byte and the content).
C7_HereAdvancesByBytesWritten ==
    [][IsOk(result') => HEREnext = HERE + BytesWritten(result')]_vars


\* ------------------------------------------------------- claims: the layout

\* the name execute_word is called with, and the name an ExecBuiltin at the
\* address run_forever is at holds
WordName == sized_string_as_bytes(machine.memory.raw_memory, run.address)
OperandName == sized_string_as_bytes(machine.memory.raw_memory, W16(run.address + 1))

\* the step invokes the built-in word with one of these names, from the input
\* or as the operand of ExecBuiltin
InvokesBuiltin(names) ==
    \/ run.at = "execute_word" /\ result'.op = "process_builtin_word" /\ WordName \in names
    \/ /\ run.at = "run_forever"
       /\ read_u8(machine.memory.raw_memory, run.address) = OpCode.ExecBuiltin
       /\ OperandName \in names

\* the step executes a store to an address taken from the data stack
Stores ==
    \/ InvokesBuiltin({Ascii["!"], Ascii["C!"], Ascii["2!"]})
    \/ /\ run.at = "run_forever"
       /\ read_u8(machine.memory.raw_memory, run.address)
            \in {OpCode.Store8, OpCode.Store16, OpCode.Store32}

\* the step compiles a string literal
CompilesString == InvokesBuiltin({Ascii["S\""], Ascii[".\""]})

StackLayout ==
    /\ 0 <= machine.memory.data_stack_ptr
    /\ machine.memory.data_stack_ptr <= machine.memory.stacks_border
    /\ machine.memory.stacks_border <= machine.memory.call_stack_ptr
    /\ machine.memory.call_stack_ptr <= machine.memory.reserved_space_start

C3_FailedOperationChangesNothing ==
    [][(/\ result'.op \in {"process_builtin_word", "execute_at"}
        /\ result'.err \notin {"Ok", "Exited", "Panic"})
       => machine'.memory = machine.memory]_vars
\* ------------------------------------------------------ claims: the lookup

\* The completed definitions, in the order of their completion, are in
\* articles; the one of a name that was completed last:
Defined(name) == \E i \in 1..Len(articles) : articles[i].name = name
Latest(name) ==
    articles[CHOOSE i \in 1..Len(articles) :
                /\ articles[i].name = name
                /\ \A j \in (i + 1)..Len(articles) : articles[j].name # name].header

\* the names looked up: the ones the texts define, and two they never define
LookupNames == {Ascii["a"], Ascii["b"], Ascii["+"], Ascii["x"], Ascii["1"], Ascii["7"]}

\* the name in the word buffer
NameBuffer ==
    sized_string_as_bytes(machine.memory.raw_memory,
        get_reserved_address(machine.memory, ReservedAddresses.WordBuffer))

\* C9: lookup_article returns the article of the name that was completed
\* last, and None for a name of which no definition was completed.
C9_LookupMostRecentFirst ==
    \A name \in LookupNames :
        lookup_article(machine.memory, name) =
            Ok(machine.memory, IF Defined(name) THEN Some(Latest(name)) ELSE None)

\* two definitions of a were completed, and one of another name after them
C9_Witness ==
    /\ Len(articles) = 3
    /\ articles[1].name = Ascii["a"]
    /\ articles[2].name = Ascii["a"]
    /\ articles[3].name # Ascii["a"]
    /\ lookup_article(machine.memory, Ascii["a"]).val = Some(articles[2].header)
    /\ articles[2].header > articles[1].header
    /\ lookup_article(machine.memory, Ascii["7"]).val = None

\* C10: execute_word runs the bytecode of the latest completed article of the
\* word's name, whatever the name, and invokes process_builtin_word only when
\* no article of that name was completed.
C10_ArticlesBeforeBuiltins ==
    [][run.at = "execute_word" =>
        IF Defined(WordName)
        THEN /\ result'.op = "run_until_exit"
             /\ run' = [at |-> "run_forever",
                        address |-> body_address(machine.memory, Latest(WordName)),
                        depth |-> call_stack_depth(machine.memory)]
             /\ machine' = machine
        ELSE result'.op = "process_builtin_word"]_vars

\* the article the user has named + is run for the word +
C10_Witness ==
    /\ result.op = "run_until_exit"
    /\ run.at = "run_forever"
    /\ NameBuffer = Ascii["+"]
    /\ Defined(Ascii["+"])
    /\ run.address = body_address(machine.memory, Latest(Ascii["+"]))
\* ---------------------------------------------- claims: the walk terminates

\* C8: on any arena, every turn of the loop of lookup_article that continues
\* moves to a strictly lower header address, so that the turns taken and the
\* address reached never add up to more than last_article_ptr, and the call
\* returns.
C8_LookupTerminates ==
    /\ [][(run.at = "lookup_turn" /\ run'.at = "lookup_turn")
            => run'.address < run.address]_vars
    /\ [](run.at = "lookup_turn"
            => nops + run.address <= machine.memory.last_article_ptr[1])
    /\ <>(run.at = "idle" /\ result.op = "lookup_article")

\* a walk over three articles has reached the end of the chain
C8_Witness ==
    /\ run.at = "idle"
    /\ result.op = "lookup_article"
    /\ IsOk(result)
    /\ result.val = None
    /\ nops = 2
\* ------------------------------------------------ C11: Call, Return, Exited

CallDepth == call_stack_depth(machine.memory)
CallTop(mc) == call_get_u16(mc.memory).val
OpAt == read_u8(machine.memory.raw_memory, run.address)
\* the step is a turn of run_forever on the opcode op
Executes(op) == run.at = "run_forever" /\ OpAt = op
\* the step is the one where run_until_exit returns Ok
RunEnds == run.at = "run_forever" /\ run'.at = "read_input_word"

\* C11 as stated, its consequence: a run of a user word that run_until_exit
\* reports as success ends with the call stack at the depth it had when the
\* run was entered.
C11_RunKeepsCallDepth ==
    [][RunEnds => call_stack_depth(machine'.memory) = run.depth]_vars

\* C11, amended: a Call at ip that succeeds pushes ip + 3 on the call stack and
\* continues at its operand; a Return with a non-empty call stack pops that
\* address and continues there; a Return with an empty call stack yields
\* Exited with the machine unchanged, and interpret_input goes on to the next
\* word. A run that ends so ends with the call stack empty: at the depth it
\* was entered with when the call stack was empty then, and only then.
C11_CallReturnExited ==
    [][/\ (Executes(OpCode.Call) /\ result'.err = "Ok") =>
            /\ run' = [run EXCEPT !.address =
                            read_u16(machine.memory.raw_memory, W16(run.address + 1))]
            /\ call_stack_depth(machine'.memory) = CallDepth + 1
            /\ CallTop(machine') = W16(run.address + 3)
       /\ (Executes(OpCode.Return) /\ CallDepth > 0) =>
            /\ result'.err = "Ok"
            /\ run' = [run EXCEPT !.address = CallTop(machine)]
            /\ call_stack_depth(machine'.memory) = CallDepth - 1
       /\ (Executes(OpCode.Return) /\ CallDepth = 0) =>
            /\ result'.err = "Exited"
            /\ RunEnds
            /\ machine' = machine
       /\ RunEnds =>
            /\ result'.err = "Exited"
            /\ call_stack_depth(machine'.memory) = 0
            /\ (call_stack_depth(machine'.memory) = run.depth <=> run.depth = 0)]_vars

\* a Call has pushed its return address below one that was there already, and
\* the run goes on at its operand
C11_Witness ==
    /\ run.at = "run_forever"
    /\ result.op = "execute_at" /\ result.err = "Ok"
    /\ read_u8(machine.memory.raw_memory, result.val) = OpCode.Call
    /\ run.address = read_u16(machine.memory.raw_memory, W16(result.val + 1))
    /\ CallDepth = 2
    /\ CallTop(machine) = W16(result.val + 3)


\* ------------------------------------------------ C12: DefaultArticleStart

MachineState == get_state(machine.memory)
\* the low byte first
Bytes16(value) == <<value % 256, value \div 256>>

\* the memory after the three bytes of a Call of target were appended at HERE
CallAppended(mm, target) ==
    [mm EXCEPT !.raw_memory =
        write_bytes(write_bytes(@, HERE, <<OpCode.Call>> \o Bytes16(target)),
                    get_reserved_address(mm, ReservedAddresses.HereVar),
                    Bytes16(W16(HERE + 3)))]

\* C12: the start opcode of a non-immediate article at address b. In compiler
\* state, when the dictionary has room, it appends exactly Call, lo(b + 1),
\* hi(b + 1) at HERE and changes nothing else but the call stack pointer: with
\* an empty call stack the run ends with Exited, otherwise the run goes on at
\* the address popped from the call stack, never at b + 1. In interpreter
\* state it goes on at b + 1 with the machine unchanged.
C12_StartOpcodeCompilesCall ==
    [][Executes(OpCode.DefaultArticleStart) =>
        IF MachineState = Interpreter
        THEN /\ result'.err = "Ok"
             /\ machine' = machine
             /\ run' = [run EXCEPT !.address = run.address + 1]
        ELSE result'.err \in {"Ok", "Exited"} =>
             /\ machine' = [machine EXCEPT !.memory =
                    [CallAppended(machine.memory, run.address + 1)
                        EXCEPT !.call_stack_ptr = IF CallDepth = 0 THEN @ ELSE @ + 2]]
             /\ IF CallDepth = 0
                THEN result'.err = "Exited" /\ RunEnds
                ELSE /\ result'.err = "Ok"
                     /\ run' = [run EXCEPT !.address = CallTop(machine)]
                     /\ run'.address # run.address + 1]_vars

\* in compiler state the start opcode of an article called from an immediate
\* word has appended its Call and returned into that word
C12_Witness ==
    /\ run.at = "run_forever"
    /\ run.depth = 0
    /\ result.op = "execute_at" /\ result.err = "Ok"
    /\ read_u8(machine.memory.raw_memory, result.val) = OpCode.DefaultArticleStart
    /\ MachineState = Compiler
    /\ CallDepth = 0
    /\ read_u8(machine.memory.raw_memory, HERE - 3) = OpCode.Call
    /\ read_u16(machine.memory.raw_memory, HERE - 2) = result.val + 1


\* ------------------------------------------------ C13: immediate words

\* the body address of the i-th completed article
Body(i) == body_address(machine.memory, articles[i].header)
\* IMMEDIATE was applied to the i-th completed article
Immediate(i) == read_u8(machine.memory.raw_memory, Body(i)) = OpCode.Noop
LastArticle == Len(articles)

\* C13: IMMEDIATE, when it succeeds, writes Noop over the first body byte of
\* the most recently completed article and changes nothing else. A word whose
\* latest article is immediate is run from that byte, in interpreter and in
\* compiler state alike, and the turn of run_forever on that byte leaves the
\* machine as it is (no Call is appended) and goes on at the next body byte.
C13_ImmediateRunsInBothStates ==
    [][/\ (InvokesBuiltin({Ascii["IMMEDIATE"]}) /\ result'.err = "Ok") =>
            /\ LastArticle > 0
            /\ machine.memory.last_article_ptr = Some(articles[LastArticle].header)
            /\ ~Immediate(LastArticle)
            /\ machine' = [machine EXCEPT !.memory.raw_memory =
                                write_u8(@, Body(LastArticle), OpCode.Noop)]
       /\ \A i \in 1..Len(articles) :
            /\ (/\ run.at = "execute_word"
                /\ Defined(WordName) /\ Latest(WordName) = articles[i].header
                /\ Immediate(i)) =>
                    /\ run'.at = "run_forever" /\ run'.address = Body(i)
                    /\ machine' = machine
            /\ (run.at = "run_forever" /\ run.address = Body(i) /\ Immediate(i)) =>
                    /\ result'.err = "Ok"
                    /\ machine' = machine
                    /\ run' = [run EXCEPT !.address = Body(i) + 1]]_vars

\* in compiler state, the run of an immediate word has passed its first body byte
C13_Witness ==
    /\ MachineState = Compiler
    /\ run.at = "run_forever"
    /\ result.op = "execute_at" /\ result.err = "Ok"
    /\ \E i \in 1..Len(articles) :
            Immediate(i) /\ result.val = Body(i) /\ run.address = Body(i) + 1


\* ------------------------------------------------ C14: IMMEDIATE twice

\* C14: IMMEDIATE is idempotent: applied in interpreter state to the most
\* recently completed article when that article is immediate already, it
\* succeeds as the first application did and leaves the machine as the first
\* application left it.
C14_ImmediateIdempotent ==
    [][(/\ InvokesBuiltin({Ascii["IMMEDIATE"]})
        /\ MachineState = Interpreter
        /\ LastArticle > 0
        /\ machine.memory.last_article_ptr = Some(articles[LastArticle].header)
        /\ Immediate(LastArticle)) =>
            /\ result'.err = "Ok"
            /\ machine' = machine]_vars


\* ------------------------------------------------ C15: `:` inside a definition

OpenDefinition == get_current_word(machine.memory) # None

\* C15 as stated: `:` invoked in compiler state while a colon definition is
\* open fails with IllegalCompilerState and writes no second header.
C15_NestedColonIllegalCompilerState ==
    [][(InvokesBuiltin({Ascii[":"]}) /\ MachineState = Compiler /\ OpenDefinition) =>
            /\ result'.err = "IllegalCompilerState"
            /\ machine'.memory = machine.memory]_vars

\* C15, amended: `:` invoked while a colon definition is open fails and leaves
\* the machine as it is (no header is written, no name is read): with
\* IllegalMode when STATE is compiler, with IllegalCompilerState when STATE
\* is interpreter.
C15_NestedColonFails ==
    [][(InvokesBuiltin({Ascii[":"]}) /\ OpenDefinition) =>
            /\ result'.err = IF MachineState = Compiler THEN "IllegalMode"
                                                        ELSE "IllegalCompilerState"
            /\ machine' = machine]_vars

\* `:` has failed inside an open definition, in compiler state
C15_Witness ==
    /\ result.op = "process_builtin_word" /\ result.err = "IllegalMode"
    /\ NameBuffer = Ascii[":"]
    /\ MachineState = Compiler
    /\ OpenDefinition


\* ------------------------------------------------ C16: a byte that is no opcode

\* C16: execute_at on an address whose byte is not an opcode returns
\* IllegalOpCodeError with that address and that byte, and the machine (both
\* stacks, the dictionary, every arena byte) is as before; run_forever gets no
\* next address, and interpret_input returns the error.
C16_IllegalOpCodeChangesNothing ==
    [][(run.at = "run_forever" /\ OpAt \notin OpCodes) =>
            /\ result' = [op |-> "execute_at", err |-> "IllegalOpCodeError",
                          val |-> run.address]
            /\ machine' = machine
            /\ run' = Idle
            /\ execute_at(machine, run.address) =
                    [err |-> "IllegalOpCodeError", val |-> <<run.address, OpAt>>,
                     s |-> machine]]_vars

\* execute_at has failed on the byte 255 the store has left in the body of a
C16_Witness ==
    /\ result.op = "execute_at" /\ result.err = "IllegalOpCodeError"
    /\ read_u8(machine.memory.raw_memory, result.val) = 255
    /\ Defined(Ascii["a"])
    /\ result.val = body_address(machine.memory, Latest(Ascii["a"])) + 4
    /\ run = Idle


\* ------------------------------------------------ C17: control flow is balanced

DataDepth == data_stack_depth(machine.memory)
\* the step is the interpretation of the line of word, and it has succeeded
Compiled(word) == nops' = nops + 1 /\ result'.op = word /\ result'.err = "Ok"
\* the data-stack words a control-flow word adds
Cells(word) ==
    CASE word \in {"IF", "BEGIN", "WHILE"} -> 1
      [] word = "ELSE" -> 0
      [] word = "THEN" -> -1
      [] word = "REPEAT" -> -2
\* the literals pushed before the definition: the depth the data stack had
\* at `:`
DepthAtColon == Cardinality({i \in 1..Len(words) : words[i] = "1"})

\* C17: inside a definition IF, BEGIN and WHILE each add one cell to the data
\* stack, ELSE leaves the depth unchanged, THEN removes one cell and REPEAT
\* two; the record of the open constructs is as deep as the data stack; and
\* when `;` closes a definition in which every construct was closed, the data
\* stack is as deep as it was at the matching `:`.
C17_ControlFlowBalanced ==
    /\ [](result.err = "Ok" => DataDepth = Len(words))
    /\ [][/\ \A word \in FlowWords :
                (Compiled(word) =>
                    data_stack_depth(machine'.memory) = DataDepth + Cells(word))
          /\ (Compiled(":") \/ Compiled(";")) =>
                    data_stack_depth(machine'.memory) = DataDepth
          /\ (Compiled(";") /\ \A i \in 1..Len(words) : words[i] = "1") =>
                    data_stack_depth(machine'.memory) = DepthAtColon]_vars

\* `;` has closed a definition whose constructs are all closed and have
\* compiled a conditional jump and a jump, over a literal pushed before `:`
C17_Witness ==
    /\ result.op = ";" /\ result.err = "Ok"
    /\ words = <<"1">>
    /\ DataDepth = 1
    /\ Len(articles) = 1
    /\ \E a, b \in 0..HERE :
            /\ read_u8(machine.memory.raw_memory, a) = OpCode.GoToIfZ
            /\ read_u8(machine.memory.raw_memory, b) = OpCode.GoTo
            /\ a < b


\* ------------------------------------------------ C18: forward references at `;`

\* the addresses from the header at from up to HERE that hold the value of an
\* unresolved forward reference
UnresolvedSlots(mm, from) ==
    {a \in from..get_dict_ptr(mm) - 2 : read_u16(mm.raw_memory, a) = UnresolvedReference}

\* C18: when `;` succeeds, no forward-reference slot of the definition it
\* closes still holds the placeholder 0xDEAD.
C18_ReferencesResolvedAtSemicolon ==
    [][Compiled(";") =>
        UnresolvedSlots(machine'.memory, get_current_word(machine.memory)[1]) = {}]_vars


\* ------------------------------------------------ C19: markers in interpreter state

\* C19: each of IF, ELSE, THEN, BEGIN, WHILE, REPEAT, EXIT and RECURSE, invoked
\* while STATE is interpreter, fails with IllegalMode whatever the data stack
\* holds, and leaves the dictionary and both stacks as they are.
C19_MarkersNeedCompileState ==
    [][(InvokesBuiltin({Ascii[word] : word \in MarkerWords}) /\ MachineState = Interpreter) =>
            /\ result'.err = "IllegalMode"
            /\ machine'.memory = machine.memory]_vars


\* ------------------------------------------------ C20: `[` and `]`

\* the machine with only the STATE variable rewritten
WithState(value) ==
    [machine EXCEPT !.memory.raw_memory =
        write_bytes(@, get_reserved_address(machine.memory, ReservedAddresses.StateVar),
                    Bytes16(value))]

\* C20 as stated: `[` leaves STATE = interpreter and `]` leaves STATE =
\* compiler whatever the state they are invoked in, without error and without
\* touching the stacks or the dictionary.
C20_BracketsStateAgnostic ==
    [][/\ InvokesBuiltin({Ascii["["]}) => (result'.err = "Ok" /\ machine' = WithState(0))
       /\ InvokesBuiltin({Ascii["]"]}) => (result'.err = "Ok" /\ machine' = WithState(65535))]_vars

\* C20, amended: `[` invoked in compiler state sets STATE to interpreter, `]`
\* invoked in interpreter state sets STATE to compiler, and neither changes
\* anything else; `[` invoked in interpreter state and `]` invoked in compiler
\* state fail with IllegalMode and change nothing, so that STATE is
\* interpreter after `[` and compiler after `]` in every case.
C20_BracketsToggle ==
    [][/\ InvokesBuiltin({Ascii["["]}) =>
            /\ IF MachineState = Compiler
               THEN result'.err = "Ok" /\ machine' = WithState(0)
               ELSE result'.err = "IllegalMode" /\ machine' = machine
            /\ get_state(machine'.memory) = Interpreter
       /\ InvokesBuiltin({Ascii["]"]}) =>
            /\ IF MachineState = Interpreter
               THEN result'.err = "Ok" /\ machine' = WithState(65535)
               ELSE result'.err = "IllegalMode" /\ machine' = machine
            /\ get_state(machine'.memory) = Compiler]_vars

\* `[` has switched to interpreter state inside an open definition
C20_Witness ==
    /\ result.op = "process_builtin_word" /\ result.err = "Ok"
    /\ NameBuffer = Ascii["["]
    /\ MachineState = Interpreter
    /\ OpenDefinition


\* ------------------------------------------------ C21: the fallback

\* the words of LiteralTexts that are no built-in names
LiteralNames ==
    {Ascii["7"], Ascii["-1"], Ascii["10"], Ascii["1F"], Ascii["$1F"], Ascii["x"], Ascii["$"]}
\* the step calls process_builtin_word on a word that is no article and no
\* built-in name
FallsBack ==
    run.at = "execute_word" /\ result'.op = "process_builtin_word" /\ WordName \in LiteralNames
\* the word as a literal under the current BASE: Some(v), or None
Parsed == parse_literal(WordName, get_base(machine.memory)).val
\* the memory with value pushed on the data stack
Pushed(mm, value) ==
    [mm EXCEPT !.raw_memory = write_bytes(@, mm.data_stack_ptr - 2, Bytes16(value)),
               !.data_stack_ptr = @ - 2]
\* the memory with the three bytes of a Literal16 of value appended at HERE
LiteralAppended(mm, value) ==
    [mm EXCEPT !.raw_memory =
        write_bytes(write_bytes(@, HERE, <<OpCode.Literal16>> \o Bytes16(value)),
                    get_reserved_address(mm, ReservedAddresses.HereVar),
                    Bytes16(W16(HERE + 3)))]

\* C21: a word that is no article and no built-in name. If it parses as a
\* literal v under the current BASE: in interpreter state, unless the data
\* stack is full, v is pushed and nothing else changes; in compiler state,
\* unless the dictionary is full, Literal16 v is appended at HERE and nothing
\* else changes. If it does not parse, the result is IllegalWord and the
\* machine is unchanged.
C21_FallbackLiteralOrIllegalWord ==
    [][FallsBack =>
        IF Parsed # None
        THEN /\ result'.err \in {"Ok", "MemoryAccessError"}
             /\ result'.err = "Ok" =>
                    IF MachineState = Interpreter
                    THEN machine' = [machine EXCEPT !.memory =
                                        Pushed(machine.memory, Parsed[1])]
                    ELSE machine' = [machine EXCEPT !.memory =
                                        LiteralAppended(machine.memory, Parsed[1])]
        ELSE /\ result'.err = "IllegalWord"
             /\ machine' = machine]_vars


\* ------------------------------------------------ C22: ExecBuiltin

\* the length byte of the sized string that follows the opcode at run.address
OperandLength == read_u8(machine.memory.raw_memory, W16(run.address + 1))

\* C22: ExecBuiltin at ip, followed by a sized string of length L, invokes the
\* dispatcher on that name and continues at ip + 2 + L, the address of the
\* byte after the last byte of the name.
C22_ExecBuiltinNextAddress ==
    [][(Executes(OpCode.ExecBuiltin) /\ result'.err = "Ok") =>
            /\ machine' = process_builtin_word(machine, W16(run.address + 1)).s
            /\ run' = [run EXCEPT !.address = run.address + 2 + OperandLength]]_vars


\* ------------------------------------------------ C23: POSTPONE

\* the name POSTPONE has read from the input, and the article of that name
PostponedAddress == get_reserved_address(machine'.memory, ReservedAddresses.WordBuffer)
PostponedName == sized_string_as_bytes(machine'.memory.raw_memory, PostponedAddress)
PostponedArticle == lookup_article(machine.memory, PostponedName).val
\* the address of the instruction compiled right after the ExecBuiltin at
\* run.address and its name
AfterOperand == W16(run.address + 2 + OperandLength)

\* C23: POSTPONE appends Call and the body address where the name it reads is
\* the name of an article, and ExecBuiltin and the name as a sized string where
\* it is not. When the ExecBuiltin THEN compiled into an immediate word runs,
\* THEN is performed once (one cell leaves the data stack) and run_forever goes
\* on at the instruction compiled right after the name, the Return of the word.
C23_PostponedBuiltinReturns ==
    /\ [][(InvokesBuiltin({Ascii["POSTPONE"]}) /\ result'.err = "Ok") =>
            /\ read_u8(machine'.memory.raw_memory, HERE)
                    = IF PostponedArticle # None THEN OpCode.Call ELSE OpCode.ExecBuiltin
            /\ PostponedArticle # None =>
                    /\ read_u16(machine'.memory.raw_memory, HERE + 1)
                            = body_address(machine.memory, PostponedArticle[1])
                    /\ HEREnext = HERE + 3
            /\ PostponedArticle = None =>
                    /\ sized_string_as_bytes(machine'.memory.raw_memory, HERE + 1) = PostponedName
                    /\ HEREnext = HERE + 2 + Len(PostponedName)]_vars
    /\ [][(Executes(OpCode.ExecBuiltin) /\ OperandName = Ascii["THEN"] /\ result'.err = "Ok") =>
            /\ data_stack_depth(machine'.memory) = DataDepth - 1
            /\ run'.at = "run_forever"
            /\ run'.address = AfterOperand
            /\ read_u8(machine'.memory.raw_memory, run'.address) = OpCode.Return]_vars


\* ------------------------------------------------ C24: literal round trip

\* the line has been interpreted to its end
Formatted == run.at = "idle" /\ result.op = "read_input_word" /\ result.err = "Ok" /\ nops = 1
\* the string #> has left on the data stack, the size on top
Produced ==
    LET size == read_u16(machine.memory.raw_memory, machine.memory.data_stack_ptr)
        address == read_u16(machine.memory.raw_memory, machine.memory.data_stack_ptr + 2)
    IN  [i \in 1..size |-> read_u8(machine.memory.raw_memory, address + i - 1)]
\* the prefix that selects a radix, where there is one
Prefix(radix) ==
    CASE radix = 10 -> <<35>>
      [] radix = 16 -> <<36>>
      [] radix = 2 -> <<37>>
      [] OTHER -> <<>>
\* the produced digits parse to value, under BASE and with the prefix of BASE
ParsesBackTo(value) ==
    /\ parse_literal(Produced, get_base(machine.memory)).val = Some(value)
    /\ parse_literal(Prefix(get_base(machine.memory)) \o Produced, get_base(machine.memory)).val
            = Some(value)

\* C24 as stated: every 16-bit value formatted with S>D <# # ... #> under a
\* BASE of 2, 10, 16 or 36 parses back to itself.
C24_RoundTripEveryValue ==
    \A value \in RoundTripValues, radix \in RoundTripRadixes, more \in {0, 1} :
        (Formatted /\ machine.input.text = RoundTripText(value, radix, CellDigits(radix) + more))
            => ParsesBackTo(Entered(value))

\* C24: a value from 0 to 32767 formatted with at least as many # as it has
\* digits parses back to itself. A negative value is formatted as the digits
\* of its 32-bit two's complement: they parse back to it with exactly 16 digits
\* under BASE 2 and exactly 4 under BASE 16, and not otherwise.
C24_RoundTripNonNegative ==
    \A value \in RoundTripValues, radix \in RoundTripRadixes, more \in {0, 1} :
        (Formatted /\ machine.input.text = RoundTripText(value, radix, CellDigits(radix) + more))
            => (ParsesBackTo(Entered(value))
                    <=> \/ Entered(value) < 32768
                        \/ Entered(radix) \in {2, 16} /\ more = 0)

C24_Witness ==
    /\ Formatted
    /\ machine.input.text = RoundTripText("666", "16", 4)
    /\ Produced = <<48, 50, 57, 65>>
    /\ get_base(machine.memory) = 16


\* ------------------------------------------------ C25: interpret_input

\* the first whitespace-delimited word of text after offset, <<>> if none
FirstWordFrom(text, offset) ==
    LET starts == {i \in offset + 1..Len(text) : ~is_whitespace(text[i])}
    IN  IF starts = {} THEN <<>>
        ELSE LET first == CHOOSE i \in starts : \A j \in starts : i <= j
                 ends == {j \in first..Len(text) : j = Len(text) \/ is_whitespace(text[j + 1])}
             IN  SubSeq(text, first, CHOOSE j \in ends : \A k \in ends : j <= k)
\* the step is one inside execute_word
InExecuteWord == run.at \in {"execute_word", "run_forever"}
\* every completed article is found under its name, unless a later one hides it
ArticlesKept(mm) ==
    \A i \in 1..Len(articles) : lookup_article(mm, articles[i].name).val # None

\* C25: interpret_input reads the words of its input in their order and
\* executes each one as it is read; at the end of the input it returns Ok. A
\* word that succeeds, or whose run ends with Exited, is followed by the next
\* read. At the first other error interpret_input returns that error: no
\* further word is read, nothing is rolled back (the machine is the one the
\* failing call left, every completed article is still found), and the machine
\* stays so until interpret_input is called again.
C25_InOrderStopAtFirstError ==
    /\ [][(run.at = "read_input_word" /\ result'.err = "Ok") =>
            \E word \in {FirstWordFrom(machine.input.text, machine.input.offset)} :
               IF word = <<>>
               THEN /\ run' = Idle
                    /\ machine'.memory.data_stack_ptr = machine.memory.data_stack_ptr
                    /\ get_dict_ptr(machine'.memory) = HERE
               ELSE /\ run'.at = "execute_word"
                    /\ sized_string_as_bytes(machine'.memory.raw_memory, run'.address) = word
                    /\ machine'.input.offset > machine.input.offset]_vars
    /\ [][(InExecuteWord /\ result'.err \in {"Ok", "Exited"}) =>
            /\ run'.at \in {"read_input_word", "run_forever"}
            /\ result'.err = "Exited" => run'.at = "read_input_word"
            /\ machine'.input.text = machine.input.text
            /\ machine'.input.offset >= machine.input.offset]_vars
    /\ [][(InExecuteWord /\ result'.err \notin {"Ok", "Exited", "Panic"}) =>
            /\ run' = Idle
            /\ machine'.input.offset >= machine.input.offset
            /\ ArticlesKept(machine'.memory)
            /\ machine' = IF run.at = "execute_word"
                          THEN execute_word(machine, run.address).r.s
                          ELSE execute_at(machine, run.address).s]_vars
    /\ [][run.at = "idle" =>
            /\ machine'.memory = machine.memory
            /\ machine'.output = machine.output
            /\ run'.at = "read_input_word"]_vars

\* an error has stopped interpret_input before the end of its input, after an
\* article was completed
C25_Witness ==
    /\ run = Idle
    /\ result.err \notin {"Ok", "Panic"}
    /\ result.op # "read_input_word"
    /\ machine.input.offset < Len(machine.input.text)
    /\ articles # <<>>


\* ------------------------------------------------ C26: the layout under the primitives

\* C26: under the primitives of MachineMemory alone, from a fresh memory,
\* 0 <= HERE <= data_sp <= stacks_border <= call_sp <= reserved_space_start
\* holds in every state.
C26_PrimitivesKeepLayout ==
    /\ 0 <= HERE
    /\ HERE <= machine.memory.data_stack_ptr
    /\ machine.memory.data_stack_ptr <= machine.memory.stacks_border
    /\ machine.memory.stacks_border <= machine.memory.call_stack_ptr
    /\ machine.memory.call_stack_ptr <= machine.memory.reserved_space_start


\* ------------------------------------------------ C27: the range a dictionary write validates

\* the primitives that append to the dictionary
DictWrites ==
    {"dict_write_u8", "dict_write_opcode", "dict_write_u16", "dict_write_u32",
     "dict_write_sized_string", "create_forward_reference"}

\* C27: a dictionary write of size bytes succeeds exactly when HERE + size - 1
\* is not above data_sp - 1, the end of the free data segment; a sized string
\* of length L is a write of 1 + L bytes, and succeeds when it fills the free
\* space exactly.
C27_DictWriteFitsExactly ==
    [][(result'.op \in DictWrites /\ machine.memory.data_stack_ptr > 0) =>
            (result'.err = "Ok"
                <=> HERE + BytesWritten(result') - 1 <= machine.memory.data_stack_ptr - 1)]_vars


\* ------------------------------------------------ C28: IF, ELSE, THEN

\* the i-th cell of the data stack from the bottom, in mm
Cell(mm, i) == read_u16(mm.raw_memory, mm.stacks_border - 2 * i)
\* the cell on top of the data stack
TopCell == read_u16(machine.memory.raw_memory, machine.memory.data_stack_ptr)
\* the dictionary bytes below HERE, with the two-byte slot at ref left out
OutsideSlot(mm, ref) ==
    [a \in (0..HERE - 1) \ {ref, ref + 1} |-> read_u8(mm.raw_memory, a)]
\* the cell recorded as label is the address of the unresolved operand of opcode
OpenReference(i, op) ==
    /\ read_u8(machine.memory.raw_memory, Cell(machine.memory, i) - 1) = op
    /\ read_u16(machine.memory.raw_memory, Cell(machine.memory, i)) = UnresolvedReference
    /\ Cell(machine.memory, i) + 2 <= HERE

\* C28: while a definition is compiled, the cell IF has left on the data
\* stack is the address of the operand of its GoToIfZ and the cell ELSE has
\* left is the address of the operand of its GoTo, both still unresolved. ELSE
\* appends GoTo and an operand, writes the address after that operand (the
\* first instruction of the alternative) into the operand of the IF, and
\* leaves the address of its own operand on top. THEN writes HERE into the
\* operand of the IF or the ELSE on top and appends nothing. Neither changes
\* another byte of the dictionary written before.
C28_BranchOperands ==
    /\ [](result.err = "Ok" =>
            \A i \in 1..Len(words) :
                /\ words[i] = "IF" => OpenReference(i, OpCode.GoToIfZ)
                /\ words[i] = "ELSE" => OpenReference(i, OpCode.GoTo))
    /\ [][/\ Compiled("IF") =>
                /\ HEREnext = HERE + 3
                /\ read_u8(machine'.memory.raw_memory, HERE) = OpCode.GoToIfZ
                /\ Cell(machine'.memory, Len(words')) = HERE + 1
                /\ OutsideSlot(machine'.memory, HERE) = OutsideSlot(machine.memory, HERE)
          /\ Compiled("ELSE") =>
                /\ HEREnext = HERE + 3
                /\ read_u8(machine'.memory.raw_memory, HERE) = OpCode.GoTo
                /\ read_u16(machine'.memory.raw_memory, HERE + 1) = UnresolvedReference
                /\ Cell(machine'.memory, Len(words')) = HERE + 1
                /\ read_u16(machine'.memory.raw_memory, TopCell) = HERE + 3
                /\ OutsideSlot(machine'.memory, TopCell) = OutsideSlot(machine.memory, TopCell)
          /\ Compiled("THEN") =>
                /\ HEREnext = HERE
                /\ read_u16(machine'.memory.raw_memory, TopCell) = HERE
                /\ OutsideSlot(machine'.memory, TopCell) = OutsideSlot(machine.memory, TopCell)
          /\ (Compiled("7") \/ Compiled(";") \/ Compiled("BEGIN")) =>
                OutsideSlot(machine'.memory, HERE) = OutsideSlot(machine.memory, HERE)]_vars

\* `: x IF 7 ELSE 7 THEN` on a fresh machine: the GoToIfZ at 5 goes to 14, the
\* first instruction after the GoTo of ELSE at 11, and that GoTo goes to 17,
\* HERE at THEN
C28_Witness ==
    /\ result.op = "THEN" /\ result.err = "Ok"
    /\ words = <<>>
    /\ HERE = 17
    /\ read_u8(machine.memory.raw_memory, 5) = OpCode.GoToIfZ
    /\ read_u16(machine.memory.raw_memory, 6) = 14
    /\ read_u8(machine.memory.raw_memory, 11) = OpCode.GoTo
    /\ read_u16(machine.memory.raw_memory, 12) = 17
    /\ read_u8(machine.memory.raw_memory, 14) = OpCode.Literal16


\* ------------------------------------------------ C29: BEGIN, WHILE, REPEAT

\* the cells of the open loops whose record the step leaves as it is are left
\* as they are
KeepsCells ==
    \A i \in 1..Len(words) :
        (i <= Len(words') /\ words'[i] = words[i] /\ words[i] \in {"BEGIN", "WHILE", "DEST"}) =>
            Cell(machine'.memory, i) = Cell(machine.memory, i)

\* C29: BEGIN leaves HERE on the data stack and appends nothing. WHILE appends
\* GoToIfZ and an unresolved operand, puts the address of that operand (orig)
\* under the loop start (dest) and leaves dest on top; until REPEAT the two
\* cells stay so, whatever is compiled in between. REPEAT appends GoTo with
\* dest as its operand and writes the address after that operand, the loop
\* exit, into the operand of the WHILE.
C29_LoopOperands ==
    /\ [](result.err = "Ok" =>
            \A i \in 1..Len(words) :
                /\ words[i] = "WHILE" =>
                        /\ OpenReference(i, OpCode.GoToIfZ)
                        /\ i < Len(words) /\ words[i + 1] = "DEST"
                        /\ Cell(machine.memory, i + 1) < Cell(machine.memory, i))
    /\ [][/\ Compiled("BEGIN") =>
                /\ HEREnext = HERE
                /\ Cell(machine'.memory, Len(words')) = HERE
          /\ Compiled("WHILE") =>
                /\ HEREnext = HERE + 3
                /\ read_u8(machine'.memory.raw_memory, HERE) = OpCode.GoToIfZ
                /\ Cell(machine'.memory, Len(words')) = TopCell
                /\ Cell(machine'.memory, Len(words') - 1) = HERE + 1
          /\ Compiled("REPEAT") =>
                /\ HEREnext = HERE + 3
                /\ read_u8(machine'.memory.raw_memory, HERE) = OpCode.GoTo
                /\ read_u16(machine'.memory.raw_memory, HERE + 1) = TopCell
                /\ read_u16(machine'.memory.raw_memory, Cell(machine.memory, Len(words) - 1))
                        = HERE + 3
                /\ OutsideSlot(machine'.memory, Cell(machine.memory, Len(words) - 1))
                        = OutsideSlot(machine.memory, Cell(machine.memory, Len(words) - 1))
          /\ (nops' = nops + 1 /\ result'.err = "Ok") => KeepsCells]_vars

\* `: x BEGIN 7 WHILE 7 REPEAT` on a fresh machine: BEGIN records 5, the
\* GoTo of REPEAT at 14 goes to 5 and the GoToIfZ of WHILE at 8 goes to 17,
\* the address after the GoTo
C29_Witness ==
    /\ result.op = "REPEAT" /\ result.err = "Ok"
    /\ words = <<>>
    /\ HERE = 17
    /\ read_u8(machine.memory.raw_memory, 5) = OpCode.Literal16
    /\ read_u8(machine.memory.raw_memory, 8) = OpCode.GoToIfZ
    /\ read_u16(machine.memory.raw_memory, 9) = 17
    /\ read_u8(machine.memory.raw_memory, 14) = OpCode.GoTo
    /\ read_u16(machine.memory.raw_memory, 15) = 5


\* ------------------------------------------------ C30: spurious forward references

\* the step is THEN or ELSE in compiler state, or REPEAT, on a data stack
\* that holds the cells the word pops
Resolves ==
    \/ /\ InvokesBuiltin({Ascii["THEN"], Ascii["ELSE"]})
       /\ MachineState = Compiler
       /\ DataDepth >= 1
    \/ InvokesBuiltin({Ascii["REPEAT"]}) /\ DataDepth >= 2
\* the cell the word resolves as a forward reference: the one on top, for
\* REPEAT the one under it
Reference ==
    IF WordName = Ascii["REPEAT"]
    THEN read_u16(machine.memory.raw_memory, machine.memory.data_stack_ptr + 2)
    ELSE TopCell
\* HERE when the reference is resolved: ELSE and REPEAT append three bytes first
HereAtResolve == IF WordName = Ascii["THEN"] THEN HERE ELSE HERE + 3
\* the two-byte slot is not entirely inside the used dictionary
Spurious == Reference + 1 > HereAtResolve - 1
\* the bytes of the stacks and of the reserved space that the step changes
StackOrReservedWritten ==
    {a \in (DOMAIN machine.memory.raw_memory) \cup (DOMAIN machine'.memory.raw_memory) :
        /\ a >= machine.memory.data_stack_ptr
        /\ read_u8(machine'.memory.raw_memory, a) # read_u8(machine.memory.raw_memory, a)}

\* C30: THEN, ELSE and REPEAT on a cell that is no address of a two-byte slot
\* inside the used dictionary fail with MemoryAccessError, and write no byte
\* of the stacks or of the reserved space.
C30_SpuriousReferenceRefused ==
    [][(Resolves /\ Spurious) =>
            /\ result'.err = "MemoryAccessError"
            /\ StackOrReservedWritten = {}]_vars


\* ------------------------------------------------ C31: POSTPONE, LITERAL, S" in interpreter state

\* C31: POSTPONE, LITERAL and S" invoked in interpreter state fail with
\* IllegalMode and leave the machine (the input, the data stack, the
\* dictionary) as it is.
C31_CompileWordsNeedCompilerState ==
    [][(InvokesBuiltin({Ascii["POSTPONE"], Ascii["LITERAL"], Ascii["S\""]})
            /\ MachineState = Interpreter) =>
            /\ result'.err = "IllegalMode"
            /\ machine' = machine]_vars


\* the bytes of the data stack and of the call stack, with their pointers
DataStackOf(mm) ==
    <<mm.data_stack_ptr, [a \in mm.data_stack_ptr..mm.stacks_border - 1 |-> read_u8(mm.raw_memory, a)]>>
CallStackOf(mm) ==
    <<mm.call_stack_ptr,
      [a \in mm.call_stack_ptr..mm.reserved_space_start - 1 |-> read_u8(mm.raw_memory, a)]>>
\* the step leaves both stacks and the output as they are
KeepsStacksAndOutput ==
    /\ DataStackOf(machine'.memory) = DataStackOf(machine.memory)
    /\ CallStackOf(machine'.memory) = CallStackOf(machine.memory)
    /\ machine'.output = machine.output
\* the opcodes the word appends in compiler state
OpcodesOf(name) ==
    IF name = Ascii["2DROP"] THEN <<OpCode.Drop16, OpCode.Drop16>>
    ELSE IF InTable(TrivialWords, name) THEN <<TrivialWords[WordOf(TrivialWords, name)]>>
    ELSE <<CompileOnlyWords[WordOf(CompileOnlyWords, name)]>>
\* the step appends exactly the bytes to the dictionary
Appends(bytes) ==
    /\ HEREnext = HERE + Len(bytes)
    /\ \A i \in 1..Len(bytes) : read_u8(machine'.memory.raw_memory, HERE + i - 1) = bytes[i]
InvokedName == IF run.at = "execute_word" THEN WordName ELSE OperandName

\* C32: a word of one opcode invoked in compiler state appends its opcode byte
\* (2DROP: two Drop16 bytes) when it succeeds, and leaves the data stack, the
\* call stack and the output as they are; the compile-only words invoked in
\* interpreter state fail with IllegalMode and touch neither stack.
C32_OpcodeWordsCompile ==
    [][InvokesBuiltin({Ascii[w] : w \in OpcodeWords}) =>
           IF MachineState = Compiler
           THEN /\ KeepsStacksAndOutput
                /\ result'.err = "Ok" => Appends(OpcodesOf(InvokedName))
           ELSE InvokedName \in {Ascii[w] : w \in DOMAIN CompileOnlyWords} =>
                    /\ result'.err = "IllegalMode"
                    /\ KeepsStacksAndOutput]_vars

\* 2DROP has been compiled into the open definition x as two Drop16 bytes,
\* with the word pushed before the definition still on the data stack
C32_Witness ==
    /\ machine.input.text = Text(<<"1", ":", "x", "2DROP">>)
    /\ result.op = "process_builtin_word" /\ result.err = "Ok"
    /\ MachineState = Compiler
    /\ DataDepth = 1
    /\ read_u8(machine.memory.raw_memory, HERE - 2) = OpCode.Drop16
    /\ read_u8(machine.memory.raw_memory, HERE - 1) = OpCode.Drop16

\* the source without its radix prefix, and the radix it is read in
HasPrefix(source) == source # <<>> /\ source[1] \in {35, 36, 37}
Unprefixed(source) == IF HasPrefix(source) THEN Tail(source) ELSE source
RadixOf(source, base) ==
    IF ~HasPrefix(source) THEN base
    ELSE IF source[1] = 35 THEN 10 ELSE IF source[1] = 36 THEN 16 ELSE 2
HasMinus(source) == Unprefixed(source) # <<>> /\ Unprefixed(source)[1] = 45
DigitsOf(source) == IF HasMinus(source) THEN Tail(Unprefixed(source)) ELSE Unprefixed(source)
\* the digit a byte stands for: 0-9, then the letters of either case from 10
DigitOf(byte) ==
    CASE byte \in 48..57 -> byte - 48
      [] byte \in 65..90 -> byte - 55
      [] byte \in 97..122 -> byte - 87
      [] OTHER -> 99
RECURSIVE Magnitude(_, _)
\* the number the digits write in the radix, or 65536 where it is greater
Magnitude(digits, radix) ==
    IF digits = <<>> THEN 0
    ELSE LET m == Magnitude(SubSeq(digits, 1, Len(digits) - 1), radix) * radix
                      + DigitOf(digits[Len(digits)])
         IN  IF m > 65535 THEN 65536 ELSE m
\* what the claim says parse_literal returns
ExpectedLiteral(source, base) ==
    LET radix == RadixOf(source, base)
        digits == DigitsOf(source)
        m == Magnitude(digits, radix)
    IN  IF \E i \in 1..Len(digits) : DigitOf(digits[i]) >= radix THEN None
        ELSE IF HasMinus(source) THEN (IF m <= 32767 THEN Some((65536 - m) % 65536) ELSE None)
        ELSE IF m <= 65535 THEN Some(m) ELSE None
ParseSource == machine.input.text
ParseRadix == RadixOf(ParseSource, get_base(machine.memory))

\* C33: on an optional prefix, an optional minus and at least one digit, read in
\* a radix from 2 to 36, parse_literal returns (2^16 - m) mod 2^16 for a
\* negative source of magnitude m <= 32767, m for a source without minus of
\* magnitude m <= 65535, and no parse for a greater magnitude or for a digit
\* that is not below the radix.
C33_ParseLiteralValue ==
    (result.op = "parse_literal" /\ DigitsOf(ParseSource) # <<>> /\ ParseRadix \in 2..36) =>
        /\ result.err = "Ok"
        /\ result.val = ExpectedLiteral(ParseSource, get_base(machine.memory))
\* -32768 is refused in decimal
C33_Witness ==
    /\ result.op = "parse_literal"
    /\ ParseSource = <<45>> \o Ascii["32768"]
    /\ get_base(machine.memory) = 10
    /\ result.val = None

\* C34: on a source without digits (the empty string, a lone minus, a lone
\* prefix, a prefix and a minus) parse_literal returns no parse and does not
\* fail otherwise.
C34_NoDigitsNoParse ==
    (result.op = "parse_literal" /\ DigitsOf(ParseSource) = <<>> /\ ParseRadix \in 2..36) =>
        /\ result.err = "Ok"
        /\ result.val = None

\* the last call made, and the calls before it
LastCall == words[Len(words)]
\* the calls end with a Store16 of v at a, the push of a and a Load16, the
\* Load16 being the last call whatever it returns
StoredThenLoaded(v, a) ==
    /\ Len(words) >= 5
    /\ SubSeq(words, Len(words) - 4, Len(words) - 1) =
           <<<<"push", v, "Ok">>, <<"push", a, "Ok">>, <<"execute", OpCode.Store16, "Ok">>,
             <<"push", a, "Ok">>>>
    /\ LastCall[1] = "execute" /\ LastCall[2] = OpCode.Load16
\* the 16-bit word on top of the data stack
TopWord(mm) == read_u16(mm.raw_memory, mm.data_stack_ptr)
\* the step executes op on an address operand that is on top of the data stack
Accesses(op) ==
    /\ result'.op = "execute" /\ Len(words') = Len(words) + 1
    /\ (words')[Len(words')][2] = op
    /\ DataDepth >= (CASE op = OpCode.Load16 -> 1 [] op = OpCode.Load32 -> 1
                        [] op = OpCode.Store16 -> 2 [] OTHER -> 3)
\* the access of the step would run over the end of the arena
RunsOver ==
    \/ (Accesses(OpCode.Load16) \/ Accesses(OpCode.Store16)) /\ TopWord(machine.memory) = 65535
    \/ (Accesses(OpCode.Load32) \/ Accesses(OpCode.Store32)) /\ TopWord(machine.memory) > 65532
\* such an access fails with MemoryAccessError and writes nothing
RunOverRefused ==
    RunsOver => /\ result'.err = "MemoryAccessError"
                /\ machine' = machine
\* the two bytes at a are not bytes of the cell that holds the address when
\* the Load16 executes
ApartFromOperand(a) == a \notin machine.memory.data_stack_ptr - 1..machine.memory.data_stack_ptr + 1

PnoBuffer ==
    <<get_reserved_address(machine.memory, ReservedAddresses.PnoBuffer),
      get_reserved_address(machine.memory, ReservedAddresses.PnoBuffer) + 127>>
PnoContent == get_pno_content_range(machine.memory)
\* the bytes put, the last one first, are the size bytes at address
ReadsReversed(address, size) ==
    /\ size = Len(words)
    /\ \A i \in 1..size :
           /\ address + i - 1 \in PnoContent[1]..PnoContent[2]
           /\ read_u8(machine.memory.raw_memory, address + i - 1) = words[size - i + 1]
\* what pno_finish has returned are the bytes put, the last one first
FinishedReversed == ReadsReversed(result.val[1], result.val[2])
\* the step is a pno_put
Puts == result'.op = "pno_put"
\* the step changes no byte out of the addresses
WritesWithin(addresses) ==
    \A a \in (DOMAIN machine.memory.raw_memory \cup DOMAIN machine'.memory.raw_memory) \ addresses :
        read_u8(machine'.memory.raw_memory, a) = read_u8(machine.memory.raw_memory, a)

\* C36: after clear_pno_buffer and k successful pno_put, pno_finish returns
\* (address, k) with the k bytes at address being the bytes put, the last one
\* first, inside the content range; the puts succeed up to the 127th, the
\* 128th fails with MemoryAccessError and changes no byte; no put writes
\* outside the 128 bytes of the buffer.
C36_PnoBufferLifo ==
    [][/\ result'.op = "pno_finish" => FinishedReversed'
       /\ Puts => /\ WritesWithin(PnoBuffer[1]..PnoBuffer[2])
                   /\ IF Len(words) < 127
                      THEN result'.err = "Ok" /\ Len(words') = Len(words) + 1
                      ELSE result'.err = "MemoryAccessError" /\ machine' = machine]_vars
\* the buffer is full, a put has failed and pno_finish has returned the 127 bytes
C36_Witness ==
    /\ result.op = "pno_finish"
    /\ Len(words) = 127
    /\ result.val = <<PnoContent[1], 127>>
    /\ words[1] # words[2]

\* the step is a reset
Resets == result'.op = "reset"
\* no article completed so far is found under its name
NoneFound(mm) == \A i \in 1..Len(articles) : lookup_article(mm, articles[i].name).val = None

\* C37: after reset, whatever happened before, both stacks are empty,
\* last_article_ptr is None, HERE = 0, STATE = interpreter, BASE = 10 and
\* CURRENT_DEF = None, no article defined before is found by a lookup, and
\* the dictionary bytes written before keep their values.
C37_ResetForgets ==
    [][Resets =>
           /\ machine'.memory.data_stack_ptr = machine.memory.stacks_border
           /\ machine'.memory.call_stack_ptr = machine.memory.reserved_space_start
           /\ machine'.memory.last_article_ptr = None
           /\ HEREnext = 0
           /\ get_state(machine'.memory) = Interpreter
           /\ get_base(machine'.memory) = 10
           /\ get_current_word(machine'.memory) = None
           /\ NoneFound(machine'.memory)
           /\ \A address \in 0..HERE - 1 :
                  read_u8(machine'.memory.raw_memory, address) =
                      read_u8(machine.memory.raw_memory, address)]_vars
\* a reset has forgotten the article a, whose header is still at address 0
C37_Witness ==
    /\ result.op = "reset"
    /\ Defined(Ascii["a"])
    /\ HERE = 0
    /\ sized_string_as_bytes(machine.memory.raw_memory, article_name_address(Latest(Ascii["a"])))
           = Ascii["a"]
    /\ lookup_article(machine.memory, Ascii["a"]).val = None

\* the step is a `;` that succeeds, a `:` that succeeds
Closes == InvokesBuiltin({Ascii[";"]}) /\ result'.err = "Ok"
Opens == InvokesBuiltin({Ascii[":"]}) /\ result'.err = "Ok"
\* the step leaves what lookup_article returns for every name
KeepsLookups ==
    \A name \in LookupNames :
        lookup_article(machine'.memory, name).val = lookup_article(machine.memory, name).val

\* C38: last_article_ptr changes only on a `;` that succeeds, to the header
\* address that `:` has recorded in CURRENT_DEF (HERE at the time of `:`);
\* every other step, `:` and the steps inside the open definition included,
\* leaves the result of every lookup, so that the open definition is found
\* only once it is closed. After a `;` that succeeds CURRENT_DEF is None and
\* STATE is interpreter.
C38_VisibleWhenClosed ==
    [][/\ machine'.memory.last_article_ptr # machine.memory.last_article_ptr => Closes
       /\ Closes =>
              /\ OpenDefinition
              /\ machine'.memory.last_article_ptr = get_current_word(machine.memory)
              /\ get_current_word(machine'.memory) = None
              /\ get_state(machine'.memory) = Interpreter
       /\ Opens => get_current_word(machine'.memory) = Some(HERE)
       /\ ~Closes => KeepsLookups]_vars
\* a second definition of a is open and the lookup of a returns the first
C38_Witness ==
    /\ OpenDefinition
    /\ article_name(machine.memory, get_current_word(machine.memory)[1]) = Ascii["a"]
    /\ Defined(Ascii["a"])
    /\ lookup_article(machine.memory, Ascii["a"]).val = Some(Latest(Ascii["a"]))
    /\ Latest(Ascii["a"]) < get_current_word(machine.memory)[1]

\* the second machine has returned from the definition and the use of f
BothReturned == nops = 2 /\ Returned
\* the outcome of the first machine
Direct == words[1]
\* the two outcomes are the same error, and the same data stack unless the
\* process has aborted
SameOutcome ==
    /\ result.err = Direct.err
    /\ Alive => StackWords(machine.memory) = Direct.stack

\* C39 as stated: the words executed directly and the words compiled into f
\* and executed as f leave the same data stack, and fail alike.
C39_CompiledAsDirect == BothReturned => SameOutcome

\* the definition of f was completed and has left room for a data stack of
\* as many words as the body has at most
Roomy ==
    /\ Defined(<<102>>)
    /\ HERE + 2 * MaxWords <= machine.memory.stacks_border

\* C39: the same, where the data space has room for the definition of f and,
\* above it, for the data stack of its run.
C39_CompiledAsDirectWithRoom == (BothReturned /\ Roomy) => SameOutcome
\* 1 DUP + has left 2 on both machines
C39_Witness ==
    /\ BothReturned
    /\ Roomy
    /\ Direct = [err |-> "Ok", stack |-> <<2>>]
    /\ StackWords(machine.memory) = <<2>>
    /\ result.err = "Ok"

\* C40: every execution of an opcode and every invocation of a built-in word
\* returns, with the next address or Ok or with a MachineError, whatever the
\* data stack and the reserved variables hold: none aborts the process.
C40_EveryOperationReturns ==
    [][(run.at \in {"execute_word", "run_forever"}) => result'.err # "Panic"]_vars

====
